---- MODULE Spec2Model ----
(***************************************************************************)
(* The read-aloud playback controller of the Reader component              *)
(* (src/unnamed/part_001, same logic in src/components/Reader.tsx) and     *)
(* the speech backend (window.speechSynthesis) it drives.                  *)
(*                                                                         *)
(* Strings.  plainText is single-space normalised and trimmed              *)
(* (part_001:131-133), so it is modelled as the sequence of its words; a   *)
(* word keeps its length in characters and whether its last character is   *)
(* one of . ! ? (the only thing chunkSentences' split regex looks at).     *)
(* The string of a word sequence is its words joined by single spaces; the *)
(* empty sequence is the empty string.  A chunk is such a string too.      *)
(*                                                                         *)
(* React state is modelled as committed between events: every handler runs *)
(* against the values of the latest render.                                *)
(***************************************************************************)
EXTENDS Integers, Sequences, FiniteSets, TLC

\* chunkSentences' default maximum chunk length.
maxLen == 1200

\* Bound: how many utterances of cancelled queues may have callbacks pending.
MaxStale == 1

Word(l, e) == [len |-> l, end |-> e]

RECURSIVE SumLen(_)
SumLen(s) == IF s = <<>> THEN 0 ELSE Head(s).len + SumLen(Tail(s))

\* s.length of the string of a word sequence.
StrLen(s) == IF s = <<>> THEN 0 ELSE SumLen(s) + Len(s) - 1

Max(S) == CHOOSE x \in S : \A y \in S : y <= x

(***************************************************************************)
(* Document texts.  blank is !text.trim(); plain is the words of           *)
(* plainText.  A markup-only text ("# ") is not blank and has an empty     *)
(* plainText.                                                              *)
(***************************************************************************)
Texts ==
  { [blank |-> FALSE,
     plain |-> << Word(1300, TRUE), Word(600, FALSE), Word(500, TRUE) >>],
    [blank |-> FALSE,
     plain |-> << Word(700, TRUE), Word(800, TRUE), Word(900, TRUE) >>],
    [blank |-> FALSE, plain |-> << >>],
    [blank |-> TRUE, plain |-> << >>] }

(***************************************************************************)
(* chunkSentences                                                          *)
(***************************************************************************)
\* text.split(/(?<=[\.\!\?])\s+/): cut at the space after a word that ends
\* in . ! ?; "".split gives [""].
RECURSIVE SplitBits(_, _, _)
SplitBits(s, cur, acc) ==
  IF s = <<>> THEN Append(acc, cur)
  ELSE IF Head(s).end /\ Tail(s) # <<>>
       THEN SplitBits(Tail(s), <<>>, Append(acc, Append(cur, Head(s))))
       ELSE SplitBits(Tail(s), Append(cur, Head(s)), acc)

\* (cur + " " + b).trim()
Join(cur, b) == IF cur = <<>> THEN b ELSE cur \o b

\* Mutant of Glue: on overflow the buffer is replaced without being
\* emitted.
RECURSIVE Glue_dropsBuffer(_, _, _, _)
Glue_dropsBuffer(bs, cur, chunks, maxL) ==
  IF bs = <<>>
  THEN IF cur # <<>> THEN Append(chunks, cur) ELSE chunks
  ELSE IF StrLen(Join(cur, Head(bs))) > maxL
       THEN Glue_dropsBuffer(Tail(bs), Head(bs), chunks, maxL)
       ELSE Glue_dropsBuffer(Tail(bs), Join(cur, Head(bs)), chunks, maxL)

\* Mutant of Glue: the length tested is that of the buffer before the
\* fragment is appended.
RECURSIVE Glue_testsBuffer(_, _, _, _)
Glue_testsBuffer(bs, cur, chunks, maxL) ==
  IF bs = <<>>
  THEN IF cur # <<>> THEN Append(chunks, cur) ELSE chunks
  ELSE IF StrLen(cur) > maxL
       THEN Glue_testsBuffer(Tail(bs), Head(bs),
                 IF cur # <<>> THEN Append(chunks, cur) ELSE chunks, maxL)
       ELSE Glue_testsBuffer(Tail(bs), Join(cur, Head(bs)), chunks, maxL)

RECURSIVE Glue(_, _, _, _)
Glue(bs, cur, chunks, maxL) ==
  IF bs = <<>>
  THEN IF cur # <<>> THEN Append(chunks, cur) ELSE chunks
  ELSE IF StrLen(Join(cur, Head(bs))) > maxL
       THEN Glue(Tail(bs), Head(bs),
                 IF cur # <<>> THEN Append(chunks, cur) ELSE chunks, maxL)
       ELSE Glue(Tail(bs), Join(cur, Head(bs)), chunks, maxL)

chunkSentences(text, maxL) ==
  LET chunks == Glue(SplitBits(text, <<>>, <<>>), <<>>, <<>>, maxL)
  IN  IF Len(chunks) # 0 THEN chunks ELSE <<text>>

(***************************************************************************)
(* words, wordOffsets, findWordIndexFromChar.  Word indices are 0-based as *)
(* in the source; offs[i + 1] is wordOffsets[i].                           *)
(***************************************************************************)
\* plainText.split(" "): "".split(" ") is [""], one empty word.
words(plain) == IF plain = <<>> THEN << Word(0, FALSE) >> ELSE plain

\* Mutant of Offsets: the separating space is not counted.
RECURSIVE Offsets_noSpace(_, _)
Offsets_noSpace(arr, pos) ==
  IF arr = <<>> THEN <<>>
  ELSE <<pos>> \o Offsets_noSpace(Tail(arr), pos + Head(arr).len)

RECURSIVE Offsets(_, _)
Offsets(arr, pos) ==
  IF arr = <<>> THEN <<>>
  ELSE <<pos>> \o Offsets(Tail(arr), pos + Head(arr).len + 1)

wordOffsets(plain) == Offsets(words(plain), 0)

\* Mutant of BinSearch: the test is wordOffsets[mid] < globalCharIdx.
RECURSIVE BinSearch_strict(_, _, _, _, _)
BinSearch_strict(offs, g, lo, hi, ans) ==
  IF lo > hi THEN ans
  ELSE LET mid == (lo + hi) \div 2
       IN  IF offs[mid + 1] < g
           THEN BinSearch_strict(offs, g, mid + 1, hi, mid)
           ELSE BinSearch_strict(offs, g, lo, mid - 1, ans)

\* Mutant of BinSearch: going left drops the answer found so far.
RECURSIVE BinSearch_forgets(_, _, _, _, _)
BinSearch_forgets(offs, g, lo, hi, ans) ==
  IF lo > hi THEN ans
  ELSE LET mid == (lo + hi) \div 2
       IN  IF offs[mid + 1] <= g
           THEN BinSearch_forgets(offs, g, mid + 1, hi, mid)
           ELSE BinSearch_forgets(offs, g, lo, mid - 1, 0)

RECURSIVE BinSearch(_, _, _, _, _)
BinSearch(offs, g, lo, hi, ans) ==
  IF lo > hi THEN ans
  ELSE LET mid == (lo + hi) \div 2
       IN  IF offs[mid + 1] <= g
           THEN BinSearch(offs, g, mid + 1, hi, mid)
           ELSE BinSearch(offs, g, lo, mid - 1, ans)

findWordIndexFromChar(offs, globalCharIdx) ==
  BinSearch(offs, globalCharIdx, 0, Len(offs) - 1, 0)

(***************************************************************************)
(* State.                                                                  *)
(*   text                 the text prop                                    *)
(*   playing, paused, currentWordIdx        React state  (102-104)         *)
(*   abortRef, queueRef, charBaseRef,                                      *)
(*   pausePositionRef, remainingChunksRef   refs         (117-121)         *)
(*   synthQueue, synthPaused   window.speechSynthesis: the utterances      *)
(*                        submitted and not yet ended (the head is the one *)
(*                        being spoken) and its paused flag                *)
(*   globalBase           the closure variable of the fresh-path queue     *)
(*                        that is in synthQueue (395)                      *)
(*   stale                utterances of cancelled queues whose callbacks   *)
(*                        the backend may still deliver, each with the     *)
(*                        globalBase of its closure                        *)
(*   last                 history: the step taken last                     *)
(*   voices, voiceName, rate, pitch         React state  (98-101); rate    *)
(*                        and pitch in hundredths (the sliders step 0.05)  *)
(*   input, result        the argument and the value of a pure function,   *)
(*                        for the specifications that exercise one;        *)
(*                        <<>> everywhere else                             *)
(* pausePositionRef is <<>> for null and <<p>> for a position p.           *)
(* An utterance is [chunk, isLast, path, k, voice, rate, pitch, offs]: its *)
(* text, whether it is queue[queue.length - 1], which loop of play built   *)
(* its callbacks, (history) k, the 0-based index of its chunk in           *)
(* chunkSentences(plain), its voice ("" for none set), rate and pitch, and *)
(* the wordOffsets that the findWordIndexFromChar of its callbacks'        *)
(* closure searches.                                                       *)
(***************************************************************************)
VARIABLES text, playing, paused, currentWordIdx, abortRef, queueRef,
          charBaseRef, pausePositionRef, remainingChunksRef,
          synthQueue, synthPaused, globalBase, stale, last,
          voices, voiceName, rate, pitch, input, result,
          viewMode, currentPage, chapterInfo, pageChangeTimeout,
          timers, rendered, effectPending, pdfViewer

session == <<playing, paused, currentWordIdx, abortRef, queueRef,
             charBaseRef, pausePositionRef, remainingChunksRef>>
backend == <<synthQueue, synthPaused, globalBase, stale>>
settings == <<voices, voiceName, rate, pitch>>
scratch == <<input, result>>
\* The page side: the view mode, the viewer's page, the chapter's pages and
\* the debounce timer handle (105-113); the timers setTimeout holds; the
\* values of the latest committed render, which the closures of its
\* effects and handlers read; whether that render's page-sync effect is
\* still to run.
\* pdfViewer is the state of the PDFViewer component (PDFViewer.tsx
\* 103-107), the page its canvas shows and the renderPage call in flight.
viewer == <<viewMode, currentPage, chapterInfo, pageChangeTimeout,
            timers, rendered, effectPending, pdfViewer>>
vars == <<text, session, backend, last, settings, scratch, viewer>>

plainText == text.plain
allChunks == chunkSentences(plainText, maxLen)

\* A voice of speechSynthesis.getVoices(): its name, and whether name and
\* lang match /US English|en-US|Samantha|Allison|Zira|Google US/i (158).
Voice(n, us) == [name |-> n, pref |-> us]

\* The voice lists the backend may enumerate; the second is the one the
\* playback specifications run with.
VoiceLists ==
  { <<>>,
    << Voice("Daniel", FALSE), Voice("Samantha", TRUE) >> }
InstalledVoices == << Voice("Daniel", FALSE), Voice("Samantha", TRUE) >>

\* v.find(x => /.../.test(x.name + " " + x.lang)) || v[0]   (158-160)
preferred(v) ==
  IF \E i \in 1..Len(v) : v[i].pref
  THEN v[CHOOSE i \in 1..Len(v) :
           v[i].pref /\ \A j \in 1..(i - 1) : ~v[j].pref]
  ELSE v[1]

\* Mutant of chosen: always the first voice of the list.
chosen_firstVoice == IF voices # <<>> THEN voices[1].name ELSE ""

\* Mutant of chosen: the selected name, enumerated or not.
chosen_selectedName == voiceName

\* voices.find(v => v.name === voiceName) || voices[0]; u.voice is set
\* only if (chosen)   (346, 392, 351, 399).  "" is an utterance's unset
\* voice.
chosen ==
  IF \E i \in 1..Len(voices) : voices[i].name = voiceName THEN voiceName
  ELSE IF voices # <<>> THEN voices[1].name
  ELSE ""

\* History records.  op: the handler that ran; path, k, c: for a callback,
\* the path of play that built it, its chunk and its ev.charIndex; noop: the
\* handler returned at its first line; late, stopped: a callback of a
\* cancelled utterance, and one a stop() cancelled or overtook; again: a
\* stop() right after a stop().
Step(op) == [op |-> op, path |-> "", k |-> -1, c |-> -1, noop |-> FALSE,
             late |-> FALSE, stopped |-> FALSE, again |-> FALSE,
             flag |-> FALSE]

\* No PDFViewer is mounted (text-only view).
noViewer == [pdf |-> FALSE, pageNum |-> 1, pageRendering |-> FALSE,
             pageNumPending |-> 0, canvas |-> 0, job |-> <<>>]

\* The component as mounted: useState and useRef initial values (102-104,
\* 117-121), nothing submitted to the backend.
mounted ==
  /\ playing = FALSE
  /\ paused = FALSE
  /\ currentWordIdx = -1
  /\ abortRef = FALSE
  /\ queueRef = <<>>
  /\ charBaseRef = 0
  /\ pausePositionRef = <<>>
  /\ remainingChunksRef = <<>>
  /\ synthQueue = <<>>
  /\ synthPaused = FALSE
  /\ globalBase = 0
  /\ stale = {}
  /\ last = Step("init")
  /\ viewMode = "text-only"
  /\ currentPage = 1
  /\ chapterInfo = <<>>
  /\ pageChangeTimeout = 0
  /\ timers = {}
  /\ rendered = [currentWordIdx |-> -1, currentPage |-> 1,
                 pageChangeTimeout |-> 0]
  /\ effectPending = FALSE
  /\ pdfViewer = noViewer

\* The voices are loaded (the effect of 154-166 has run) and no control has
\* been touched.
Init ==
  /\ text \in Texts
  /\ mounted
  /\ voices = InstalledVoices
  /\ voiceName = (preferred(voices)).name
  /\ rate = 100
  /\ pitch = 100
  /\ input = <<>>
  /\ result = <<>>

(***************************************************************************)
(* speechSynthesis                                                         *)
(***************************************************************************)
speaking == synthQueue # <<>>

\* What is left of a cancelled utterance: its onboundary and onend, which
\* read its chunk and their closure, not its voice, rate or pitch.
callbacks(u) ==
  [chunk |-> u.chunk, isLast |-> u.isLast, path |-> u.path, k |-> u.k,
   offs |-> u.offs]

\* speechSynthesis.cancel(): every queued utterance is dropped (the caller
\* sets synthQueue').  The callbacks of the utterance that was being spoken
\* may already be scheduled and still arrive (it joins stale), or not.  Whether cancel() leaves the
\* paused flag as it is or clears it differs between engines: either.
\* byStop (history) marks the utterances that a stop() cancelled or overtook.
cancel(byStop) ==
  LET old == IF byStop THEN {[s EXCEPT !.stopped = TRUE] : s \in stale}
             ELSE stale
      cur == [u |-> callbacks(Head(synthQueue)), globalBase |-> globalBase,
              stopped |-> byStop]
  IN  /\ stale' \in {old} \cup
                    (IF speaking /\ Cardinality(old) < MaxStale
                     THEN {old \cup {cur}} ELSE {})
      /\ synthPaused' \in {synthPaused, FALSE}

\* The utterances play() builds from a list of chunks; first is the index
\* in allChunks of the first of them.
\* Mutant of Utterances: every utterance takes itself for the last one.
Utterances_everyLast(chunks, path, first) ==
  [i \in 1..Len(chunks) |->
     [chunk |-> chunks[i], isLast |-> TRUE, path |-> path,
      k |-> first + i - 1,
      voice |-> chosen, rate |-> rate, pitch |-> pitch,
      offs |-> wordOffsets(plainText)]]

\* Mutant of Utterances: no utterance takes itself for the last one.
Utterances_noneLast(chunks, path, first) ==
  [i \in 1..Len(chunks) |->
     [chunk |-> chunks[i], isLast |-> FALSE, path |-> path,
      k |-> first + i - 1,
      voice |-> chosen, rate |-> rate, pitch |-> pitch,
      offs |-> wordOffsets(plainText)]]

\* Each takes voice, rate and pitch from the render play() runs in
\* (346-353, 393-401), and its callbacks close over that render's
\* findWordIndexFromChar, hence its wordOffsets (281-291, 435).
Utterances(chunks, path, first) ==
  [i \in 1..Len(chunks) |->
     [chunk |-> chunks[i], isLast |-> (i = Len(chunks)), path |-> path,
      k |-> first + i - 1,
      voice |-> chosen, rate |-> rate, pitch |-> pitch,
      offs |-> wordOffsets(plainText)]]

(***************************************************************************)
(* stopAll                                                                 *)
(***************************************************************************)
\* Mutant of abortAtCancel: cancel() is requested before the flag is set.
abortAtCancel_cancelFirst(before) == before

\* abortRef.current as speechSynthesis.cancel() (297), and any callback it
\* invokes before it returns, reads it: 294 has already run.  last.flag
\* (history) keeps it.
abortAtCancel(before) == TRUE

\* Mutant of stopAll: charBaseRef is not reset.
stopAll_keepsCharBase ==
  /\ abortRef' = TRUE
  /\ playing' = FALSE
  /\ paused' = FALSE
  /\ cancel(TRUE)
  /\ synthQueue' = <<>>
  /\ globalBase' = 0
  /\ queueRef' = <<>>
  /\ currentWordIdx' = -1
  /\ pausePositionRef' = <<>>
  /\ remainingChunksRef' = <<>>
  /\ last' = [Step("stop") EXCEPT !.again = (last.op = "stop"),
                               !.flag = abortAtCancel(abortRef)]
  /\ UNCHANGED <<text, settings, scratch, viewer, charBaseRef>>

\* Mutant of stopAll: the abort flag is flipped instead of set.
stopAll_flipsAbort ==
  /\ abortRef' = ~abortRef
  /\ playing' = FALSE
  /\ paused' = FALSE
  /\ cancel(TRUE)
  /\ synthQueue' = <<>>
  /\ globalBase' = 0
  /\ queueRef' = <<>>
  /\ charBaseRef' = 0
  /\ currentWordIdx' = -1
  /\ pausePositionRef' = <<>>
  /\ remainingChunksRef' = <<>>
  /\ last' = [Step("stop") EXCEPT !.again = (last.op = "stop"),
                               !.flag = abortAtCancel(abortRef)]
  /\ UNCHANGED <<text, settings, scratch, viewer>>

stopAll ==
  /\ abortRef' = TRUE
  /\ playing' = FALSE
  /\ paused' = FALSE
  /\ cancel(TRUE)
  /\ synthQueue' = <<>>
  /\ globalBase' = 0
  /\ queueRef' = <<>>
  /\ charBaseRef' = 0
  /\ currentWordIdx' = -1
  /\ pausePositionRef' = <<>>
  /\ remainingChunksRef' = <<>>
  /\ last' = [Step("stop") EXCEPT !.again = (last.op = "stop"),
                               !.flag = abortAtCancel(abortRef)]
  /\ UNCHANGED <<text, settings, scratch, viewer>>

(***************************************************************************)
(* pause                                                                   *)
(***************************************************************************)
\* The loop of pause: the chunks from the first one whose span
\* [charCount, charCount + length) holds charBase; [] when there is none.
\* Mutant of PauseScan: the span test is charCount < charBase.
RECURSIVE PauseScan_strict(_, _, _, _)
PauseScan_strict(chunks, i, charCount, charBase) ==
  IF i > Len(chunks) THEN <<>>
  ELSE IF charCount < charBase /\ charCount + StrLen(chunks[i]) > charBase
       THEN SubSeq(chunks, i, Len(chunks))
       ELSE PauseScan_strict(chunks, i + 1,
                             charCount + StrLen(chunks[i]) + 1, charBase)

RECURSIVE PauseScan(_, _, _, _)
PauseScan(chunks, i, charCount, charBase) ==
  IF i > Len(chunks) THEN <<>>
  ELSE IF charCount <= charBase /\ charCount + StrLen(chunks[i]) > charBase
       THEN SubSeq(chunks, i, Len(chunks))
       ELSE PauseScan(chunks, i + 1, charCount + StrLen(chunks[i]) + 1,
                      charBase)

\* Mutant of pauseGuard: the backend's paused flag is not looked at.
pauseGuard_speakingOnly == speaking

\* if (speechSynthesis.speaking && !speechSynthesis.paused)
pauseGuard == speaking /\ ~synthPaused

pause ==
  /\ IF pauseGuard
     THEN /\ pausePositionRef' =
               << [charBase |-> charBaseRef, currentWord |-> currentWordIdx] >>
          /\ remainingChunksRef' = PauseScan(allChunks, 1, 0, charBaseRef)
          /\ synthPaused' = TRUE
          /\ paused' = TRUE
          /\ last' = Step("pause")
     ELSE /\ UNCHANGED <<pausePositionRef, remainingChunksRef, synthPaused,
                         paused>>
          /\ last' = [Step("pause") EXCEPT !.noop = TRUE]
  /\ UNCHANGED <<text, settings, scratch, viewer,
                 playing, currentWordIdx, abortRef, queueRef,
                 charBaseRef, synthQueue, globalBase, stale>>

(***************************************************************************)
(* resume                                                                  *)
(***************************************************************************)
\* Mutant of resume: it also drops the checkpoint.
resume_dropsCheckpoint ==
  /\ IF synthPaused
     THEN /\ synthPaused' = FALSE
          /\ paused' = FALSE
          /\ pausePositionRef' = <<>>
          /\ remainingChunksRef' = <<>>
          /\ last' = Step("resume")
     ELSE /\ UNCHANGED <<synthPaused, paused, pausePositionRef,
                         remainingChunksRef>>
          /\ last' = [Step("resume") EXCEPT !.noop = TRUE]
  /\ UNCHANGED <<text, settings, scratch, viewer,
                 playing, currentWordIdx, abortRef, queueRef,
                 charBaseRef, synthQueue, globalBase, stale>>

resume ==
  /\ IF synthPaused
     THEN /\ synthPaused' = FALSE
          /\ paused' = FALSE
          /\ last' = Step("resume")
     ELSE /\ UNCHANGED <<synthPaused, paused>>
          /\ last' = [Step("resume") EXCEPT !.noop = TRUE]
  /\ UNCHANGED <<text, settings, scratch, viewer,
                 playing, currentWordIdx, abortRef, queueRef,
                 charBaseRef, pausePositionRef, remainingChunksRef,
                 synthQueue, globalBase, stale>>

(***************************************************************************)
(* play                                                                    *)
(***************************************************************************)
\* Mutant of restartGuard: a single remaining chunk does not count.
restartGuard_needsTwo ==
  paused /\ pausePositionRef # <<>> /\ Len(remainingChunksRef) > 1

restartGuard ==
  paused /\ pausePositionRef # <<>> /\ Len(remainingChunksRef) > 0

\* if (!text.trim()) return;
playBlank ==
  /\ text.blank
  /\ last' = [Step("play") EXCEPT !.noop = TRUE]
  /\ UNCHANGED <<text, settings, scratch, viewer, session, backend>>

\* Mutant of playRestart: the checkpoint is cleared once it is restored.
playRestart_clearsCheckpoint ==
  /\ ~text.blank
  /\ restartGuard
  /\ cancel(FALSE)
  /\ charBaseRef' = pausePositionRef[1].charBase
  /\ currentWordIdx' = pausePositionRef[1].currentWord
  /\ LET queue == Utterances(remainingChunksRef, "restart",
                             Len(allChunks) - Len(remainingChunksRef))
     IN  /\ queueRef' = queue
         /\ synthQueue' = queue
  /\ globalBase' = 0
  /\ playing' = TRUE
  /\ paused' = FALSE
  /\ pausePositionRef' = <<>>
  /\ last' = [Step("play") EXCEPT !.path = "restart"]
  /\ UNCHANGED <<text, settings, scratch, viewer, abortRef, remainingChunksRef>>

\* The restart-from-checkpoint path (340-387).
playRestart ==
  /\ ~text.blank
  /\ restartGuard
  /\ cancel(FALSE)
  /\ charBaseRef' = pausePositionRef[1].charBase
  /\ currentWordIdx' = pausePositionRef[1].currentWord
  /\ LET queue == Utterances(remainingChunksRef, "restart",
                             Len(allChunks) - Len(remainingChunksRef))
     IN  /\ queueRef' = queue
         /\ synthQueue' = queue
  /\ globalBase' = 0
  /\ playing' = TRUE
  /\ paused' = FALSE
  /\ last' = [Step("play") EXCEPT !.path = "restart"]
  /\ UNCHANGED <<text, settings, scratch, viewer,
                 abortRef, pausePositionRef, remainingChunksRef>>

\* The fresh path (389-434): stopAll(), abortRef.current = false, then the
\* new queue.  stopAll's writes are overwritten or kept as below; its
\* cancel() is not recorded as a stop() in the history.
playFresh ==
  /\ ~text.blank
  /\ ~restartGuard
  /\ cancel(FALSE)
  /\ abortRef' = FALSE
  /\ charBaseRef' = 0
  /\ currentWordIdx' = -1
  /\ pausePositionRef' = <<>>
  /\ remainingChunksRef' = <<>>
  /\ LET queue == Utterances(chunkSentences(plainText, maxLen), "fresh", 0)
     IN  /\ queueRef' = queue
         /\ synthQueue' = queue
  /\ globalBase' = 0
  /\ playing' = TRUE
  /\ paused' = FALSE
  /\ last' = [Step("play") EXCEPT !.path = "fresh"]
  /\ UNCHANGED <<text, settings, scratch, viewer>>

play == playBlank \/ playRestart \/ playFresh

(***************************************************************************)
(* The callbacks of an utterance u; gb is the globalBase of u's closure.   *)
(***************************************************************************)
\* globalBase + ev.charIndex (406), charBaseRef.current + ev.charIndex (359)
globalChar(base, charIndex) == base + charIndex

\* Mutant of advance: the joining space is not counted.
advance_noSeparator(base, chunk) == base + StrLen(chunk)

\* globalBase += chunk.length + 1 (414), charBaseRef.current += ... (367)
advance(base, chunk) == base + StrLen(chunk) + 1

\* Mutant of closureBase: the fresh path reads charBaseRef.current too.
closureBase_refOnly(u, gb) == charBaseRef

\* The base a callback adds to: the fresh path's closure variable
\* globalBase (406, 414), the restart path's charBaseRef.current (359, 367).
closureBase(u, gb) == IF u.path = "fresh" THEN gb ELSE charBaseRef

onboundaryBody(u, gb, c) ==
  IF abortRef
  THEN UNCHANGED currentWordIdx
  ELSE currentWordIdx' =
         findWordIndexFromChar(u.offs,
                               globalChar(closureBase(u, gb), c))

onendBody(u, gb) ==
  IF abortRef
  THEN UNCHANGED <<charBaseRef, playing, paused, pausePositionRef,
                   remainingChunksRef>>
  ELSE /\ charBaseRef' = advance(closureBase(u, gb), u.chunk)
       /\ IF u.isLast
          THEN /\ playing' = FALSE
               /\ paused' = FALSE
               /\ pausePositionRef' = <<>>
               /\ remainingChunksRef' = <<>>
          ELSE UNCHANGED <<playing, paused, pausePositionRef,
                           remainingChunksRef>>

\* The chunk-local character indices a boundary event may carry: the first
\* and the last character of each word of the chunk.
CharIdxs(chunk) ==
  LET offs == Offsets(chunk, 0)
  IN  UNION { {offs[i], offs[i] + chunk[i].len - 1} : i \in 1..Len(chunk) }

Event(op, u, c, late, stopped) ==
  [op |-> op, path |-> u.path, k |-> u.k, c |-> c, noop |-> abortRef,
   late |-> late, stopped |-> stopped, again |-> FALSE, flag |-> FALSE]

\* The backend speaks the head of its queue (not while paused) and reports
\* a word boundary.
onboundary ==
  /\ speaking /\ ~synthPaused
  /\ \E c \in CharIdxs(Head(synthQueue).chunk) :
       /\ onboundaryBody(Head(synthQueue), globalBase, c)
       /\ last' = Event("onboundary", Head(synthQueue), c, FALSE, FALSE)
  /\ UNCHANGED <<text, settings, scratch, viewer,
                 playing, paused, abortRef, queueRef, charBaseRef,
                 pausePositionRef, remainingChunksRef, backend>>

\* The head of the backend's queue ends; the next utterance starts.
onend ==
  /\ speaking /\ ~synthPaused
  /\ onendBody(Head(synthQueue), globalBase)
  /\ synthQueue' = Tail(synthQueue)
  /\ globalBase' = IF Tail(synthQueue) = <<>> THEN 0
                   ELSE IF abortRef \/ Head(synthQueue).path # "fresh"
                        THEN globalBase
                        ELSE advance(globalBase, Head(synthQueue).chunk)
  /\ last' = Event("onend", Head(synthQueue), -1, FALSE, FALSE)
  /\ UNCHANGED <<text, settings, scratch, viewer,
                 currentWordIdx, abortRef, queueRef, synthPaused,
                 stale>>

\* A boundary event of a cancelled utterance arrives late.
lateOnboundary ==
  \E s \in stale : \E c \in CharIdxs(s.u.chunk) :
    /\ onboundaryBody(s.u, s.globalBase, c)
    /\ last' = Event("onboundary", s.u, c, TRUE, s.stopped)
    /\ UNCHANGED <<text, settings, scratch, viewer,
                   playing, paused, abortRef, queueRef, charBaseRef,
                   pausePositionRef, remainingChunksRef, backend>>

\* The end event of a cancelled utterance arrives late; it is its last event.
lateOnend ==
  \E s \in stale :
    /\ onendBody(s.u, s.globalBase)
    /\ stale' = stale \ {s}
    /\ last' = Event("onend", s.u, -1, TRUE, s.stopped)
    /\ UNCHANGED <<text, settings, scratch, viewer,
                   currentWordIdx, abortRef, queueRef, synthQueue,
                   synthPaused, globalBase>>

Next ==
  \/ play
  \/ pause
  \/ resume
  \/ stopAll
  \/ onboundary
  \/ onend
  \/ lateOnboundary
  \/ lateOnend

Spec == Init /\ [][Next]_vars

(***************************************************************************)
(* A backend that delivers the callbacks of the queue it holds in order,   *)
(* with chunk-local character indices that do not decrease within an       *)
(* utterance, and none of a cancelled queue.  Without resume() the         *)
(* utterance is spoken without interruption from a play() on, so that the  *)
(* index of its latest boundary event is the one kept in last.             *)
(***************************************************************************)
orderedBoundary ==
  /\ onboundary
  /\ (last.op = "onboundary" /\ last.k = last'.k /\ last.path = last'.path)
       => last'.c >= last.c

NextOrdered ==
  \/ play
  \/ pause
  \/ stopAll
  \/ orderedBoundary
  \/ onend

SpecOrdered == Init /\ [][NextOrdered]_vars

(***************************************************************************)
(* A session driven only by play() from Idle, pause(), resume() and play() *)
(* while Paused; the backend behaves as in Spec.                           *)
(***************************************************************************)
playFromIdle == ~playing /\ ~paused /\ play

playWhilePaused == paused /\ play

NextPauseResume ==
  \/ playFromIdle
  \/ playWhilePaused
  \/ pause
  \/ resume
  \/ onboundary
  \/ onend
  \/ lateOnboundary
  \/ lateOnend

SpecPauseResume == Init /\ [][NextPauseResume]_vars

(***************************************************************************)
(* A session without stop(), on a backend that delivers the completion of  *)
(* the utterance at the head of its queue whenever it keeps being able to  *)
(* (strong fairness: a pause may interrupt it any number of times), and    *)
(* whose pause is always followed, sooner or later, by resume().           *)
(***************************************************************************)
resumePaused == synthPaused /\ resume

NextTerminates ==
  \/ playFromIdle
  \/ playWhilePaused
  \/ pause
  \/ resumePaused
  \/ onboundary
  \/ onend

SpecTerminates ==
  /\ Init
  /\ [][NextTerminates]_vars
  /\ SF_vars(onend)
  /\ WF_vars(resumePaused)

(***************************************************************************)
(* The voice, speed and pitch controls.  The component mounts with no      *)
(* voice loaded; the voices effect and the controls run between finished   *)
(* and stopped readings.                                                   *)
(***************************************************************************)
\* The slider positions exercised, in hundredths (603, 609).
Rates == {100, 150}
Pitches == {75, 100}

\* loadVoices (155-162); also speechSynthesis.onvoiceschanged (164).
loadVoices ==
  \E v \in VoiceLists :
    /\ voices' = v
    /\ voiceName' = IF voiceName = "" /\ v # <<>>
                    THEN (preferred(v)).name ELSE voiceName
    /\ last' = Step("loadVoices")
    /\ UNCHANGED <<text, rate, pitch, scratch, viewer, session, backend>>

\* The voice <select> lists voices (594-598).
setVoiceName ==
  \E i \in 1..Len(voices) :
    /\ voiceName' = voices[i].name
    /\ last' = Step("setVoiceName")
    /\ UNCHANGED <<text, voices, rate, pitch, scratch, viewer, session, backend>>

setRate ==
  \E r \in Rates :
    /\ rate' = r
    /\ last' = Step("setRate")
    /\ UNCHANGED <<text, voices, voiceName, pitch, scratch, viewer, session,
                   backend>>

setPitch ==
  \E q \in Pitches :
    /\ pitch' = q
    /\ last' = Step("setPitch")
    /\ UNCHANGED <<text, voices, voiceName, rate, scratch, viewer, session,
                   backend>>

InitSettings ==
  /\ text \in Texts
  /\ mounted
  /\ voices = <<>>
  /\ voiceName = ""
  /\ rate = 100
  /\ pitch = 100
  /\ input = <<>>
  /\ result = <<>>

NextSettings ==
  \/ loadVoices
  \/ setVoiceName
  \/ setRate
  \/ setPitch
  \/ playFromIdle
  \/ stopAll
  \/ onend
  \/ lateOnend

SpecSettings == InitSettings /\ [][NextSettings]_vars

(***************************************************************************)
(* A new text prop.  The page renders <Reader text={text} /> with no key   *)
(* (layout.tsx:199), so a new text re-renders the mounted component:       *)
(* useMemo recomputes plainText, words and wordOffsets (124-144), and no   *)
(* effect of the component depends on text.  Utterances already built keep *)
(* the closures of the render that built them.                             *)
(***************************************************************************)
setText ==
  \E t \in Texts \ {text} :
    /\ text' = t
    /\ last' = Step("setText")
    /\ UNCHANGED <<settings, scratch, viewer, session, backend>>

NextTextChange ==
  \/ setText
  \/ playFromIdle
  \/ pause
  \/ resume
  \/ onboundary
  \/ onend

SpecTextChange == Init /\ [][NextTextChange]_vars

(***************************************************************************)
(* The text prop, character by character.  A document is a sequence of     *)
(* one-character strings; useMemo (124-144) derives plainText from it and  *)
(* tokenizes plainText.                                                    *)
(***************************************************************************)
\* \s
Spaces == {" ", "\n", "\t"}

\* How many characters of s from position i on are in S.
RECURSIVE Span(_, _, _)
Span(s, i, S) ==
  IF i <= Len(s) /\ s[i] \in S THEN 1 + Span(s, i + 1, S) ELSE 0

\* .replace(/^m+\s+/gm, '') when many, .replace(/^m\s+/gm, '') when not:
\* at the start of a line, the marker character(s) and the white space
\* after them, line ends included, are removed; the scan goes on after the
\* match.
RECURSIVE StripMarker(_, _, _, _, _)
StripMarker(s, i, m, many, acc) ==
  IF i > Len(s) THEN acc
  ELSE LET nm == IF many THEN Span(s, i, {m})
                 ELSE IF s[i] = m THEN 1 ELSE 0
           ns == Span(s, i + nm, Spaces)
       IN  IF (i = 1 \/ s[i - 1] = "\n") /\ nm >= 1 /\ ns >= 1
           THEN StripMarker(s, i + nm + ns, m, many, acc)
           ELSE StripMarker(s, i + 1, m, many, Append(acc, s[i]))

\* .replace(/^---\n|\n---$/g, ''): no m flag, so only at the very start
\* and at the very end.
StripSidebar(s) ==
  LET open == <<"-", "-", "-", "\n">>
      close == <<"\n", "-", "-", "-">>
      a == IF Len(s) >= 4 /\ SubSeq(s, 1, 4) = open
           THEN SubSeq(s, 5, Len(s)) ELSE s
  IN  IF Len(a) >= 4 /\ SubSeq(a, Len(a) - 3, Len(a)) = close
      THEN SubSeq(a, 1, Len(a) - 4) ELSE a

\* .replace(/\n\n/g, ' ')
RECURSIVE JoinParagraphs(_, _, _)
JoinParagraphs(s, i, acc) ==
  IF i > Len(s) THEN acc
  ELSE IF s[i] = "\n" /\ i < Len(s) /\ s[i + 1] = "\n"
       THEN JoinParagraphs(s, i + 2, Append(acc, " "))
       ELSE JoinParagraphs(s, i + 1, Append(acc, s[i]))

\* .replace(/\s+/g, ' ')
RECURSIVE Normalize(_, _, _)
Normalize(s, i, acc) ==
  IF i > Len(s) THEN acc
  ELSE IF s[i] \in Spaces
       THEN Normalize(s, i + Span(s, i, Spaces), Append(acc, " "))
       ELSE Normalize(s, i + 1, Append(acc, s[i]))

\* .trim()
RECURSIVE Trim(_)
Trim(s) ==
  IF s = <<>> THEN s
  ELSE IF Head(s) \in Spaces THEN Trim(Tail(s))
  ELSE IF s[Len(s)] \in Spaces THEN Trim(SubSeq(s, 1, Len(s) - 1))
  ELSE s

\* The bullet character U+2022 of the third replace (129).
bullet == "*"

\* plainText of a document (126-133).
PlainText(doc) ==
  LET h == StripMarker(doc, 1, "#", TRUE, <<>>)
      q == StripMarker(h, 1, ">", FALSE, <<>>)
      b == StripMarker(q, 1, bullet, FALSE, <<>>)
      d == StripSidebar(b)
      j == JoinParagraphs(d, 1, <<>>)
      n == Normalize(j, 1, <<>>)
  IN  Trim(n)

\* s.split(" "); "".split(" ") is [""].
RECURSIVE SplitSpace(_, _, _)
SplitSpace(s, cur, acc) ==
  IF s = <<>> THEN Append(acc, cur)
  ELSE IF Head(s) = " "
       THEN SplitSpace(Tail(s), <<>>, Append(acc, cur))
       ELSE SplitSpace(Tail(s), Append(cur, Head(s)), acc)

\* A word of plainText as the playback model keeps it: its length and
\* whether it ends a sentence for chunkSentences' split (70).
WordOf(w) == Word(Len(w), w # <<>> /\ w[Len(w)] \in {".", "!", "?"})

\* { words: arr, wordOffsets: offsets, plainText } of a document (124-144).
useMemoOf(doc) ==
  LET p == PlainText(doc)
      arr == SplitSpace(p, <<>>, <<>>)
  IN  [plainText |-> p, words |-> arr,
       wordOffsets |-> Offsets([i \in 1..Len(arr) |-> WordOf(arr[i])], 0)]

\* The document as the playback model keeps it.
TextOf(doc) ==
  LET m == useMemoOf(doc)
  IN  [blank |-> (Trim(doc) = <<>>),
       plain |-> IF m.plainText = <<>> THEN <<>>
                 ELSE [i \in 1..Len(m.words) |-> WordOf(m.words[i])]]

\* Bound: the length of the documents tokenized.
MaxDocLen == 5

Alphabet == {"a", ".", " ", "\n", "#"}

RECURSIVE Strings(_, _)
Strings(A, n) ==
  IF n = 0 THEN {<<>>}
  ELSE LET shorter == Strings(A, n - 1)
       IN  shorter \cup {Append(x, c) : x \in shorter, c \in A}

\* "alpha beta gamma delta"
Example ==
  <<"a", "l", "p", "h", "a", " ", "b", "e", "t", "a", " ",
    "g", "a", "m", "m", "a", " ", "d", "e", "l", "t", "a">>

Docs == Strings(Alphabet, MaxDocLen) \cup {Example}

\* The component renders a document and its useMemo runs.
InitTokenizer ==
  /\ input \in Docs
  /\ result = <<>>
  /\ text = TextOf(input)
  /\ mounted
  /\ voices = <<>>
  /\ voiceName = ""
  /\ rate = 100
  /\ pitch = 100

useMemo ==
  /\ result = <<>>
  /\ result' = <<useMemoOf(input)>>
  /\ last' = Step("useMemo")
  /\ UNCHANGED <<text, settings, input, session, backend, viewer>>

NextTokenizer == useMemo

SpecTokenizer == InitTokenizer /\ [][NextTokenizer]_vars

(***************************************************************************)
(* findWordIndexFromChar on its own: over offset lists of every shape a    *)
(* strictly increasing list can take, and two character indices a <= b.    *)
(***************************************************************************)
\* Bound: the largest offset of the lists searched.
MaxOffset == 6

RECURSIVE Sorted(_)
Sorted(S) ==
  IF S = {} THEN <<>>
  ELSE LET m == CHOOSE x \in S : \A y \in S : x <= y
       IN  <<m>> \o Sorted(S \ {m})

\* The strictly increasing lists over 0..MaxOffset, the empty one among
\* them, and the wordOffsets of "alpha beta gamma delta".
OffsetLists ==
  {Sorted(S) : S \in SUBSET (0..MaxOffset)} \cup {<<0, 6, 11, 17>>}

\* The character indices tried on a list: from below every offset to above
\* every offset.
CharRange(offs) ==
  (-1)..(IF offs = <<>> THEN 1 ELSE offs[Len(offs)] + 1)

InitSearch ==
  /\ input \in UNION {{[offsets |-> o, a |-> x, b |-> y] :
                          x \in CharRange(o), y \in CharRange(o)} :
                        o \in OffsetLists}
  /\ input.a <= input.b
  /\ result = <<>>
  /\ text = TextOf(<<>>)
  /\ mounted
  /\ voices = <<>>
  /\ voiceName = ""
  /\ rate = 100
  /\ pitch = 100

\* findWordIndexFromChar is called with each of the two indices.
search ==
  /\ result = <<>>
  /\ result' = <<[a |-> findWordIndexFromChar(input.offsets, input.a),
                  b |-> findWordIndexFromChar(input.offsets, input.b)]>>
  /\ last' = Step("findWordIndexFromChar")
  /\ UNCHANGED <<text, settings, input, session, backend, viewer>>

NextSearch == search

SpecSearch == InitSearch /\ [][NextSearch]_vars

(***************************************************************************)
(* chunkSentences on its own: over every plainText of a few short words    *)
(* and every small maximum length.                                         *)
(***************************************************************************)
\* Bounds: the words of a text, the characters of a word, the maximum
\* chunk length.
MaxWords == 4
MaxWordLen == 2
MaxChunkLen == 5

PlainTexts ==
  Strings({Word(l, e) : l \in 1..MaxWordLen, e \in BOOLEAN}, MaxWords)

InitChunk ==
  /\ input \in [text : PlainTexts, maxLen : 1..MaxChunkLen]
  /\ result = <<>>
  /\ text = [blank |-> (input.text = <<>>), plain |-> input.text]
  /\ mounted
  /\ voices = <<>>
  /\ voiceName = ""
  /\ rate = 100
  /\ pitch = 100

chunk ==
  /\ result = <<>>
  /\ result' = <<chunkSentences(input.text, input.maxLen)>>
  /\ last' = Step("chunkSentences")
  /\ UNCHANGED <<text, settings, input, session, backend, viewer>>

NextChunk == chunk

SpecChunk == InitChunk /\ [][NextChunk]_vars

\* Math.max(lo, Math.min(hi, x))
Clamp(x, lo, hi) == IF x < lo THEN lo ELSE IF x > hi THEN hi ELSE x

(***************************************************************************)
(* analyzeContentDensity (194-213), on the documents of the tokenizer.     *)
(* The factor is the fraction num / den, den = 10 * lines.length.          *)
(***************************************************************************)
\* Mutant of Lines: an empty last line is not a line.
RECURSIVE Lines_noEmptyLast(_, _, _)
Lines_noEmptyLast(s, cur, acc) ==
  IF s = <<>> THEN (IF cur = <<>> THEN acc ELSE Append(acc, cur))
  ELSE IF Head(s) = "\n"
       THEN Lines_noEmptyLast(Tail(s), <<>>, Append(acc, cur))
       ELSE Lines_noEmptyLast(Tail(s), Append(cur, Head(s)), acc)

\* text.split('\n'); "".split('\n') is [""].
RECURSIVE Lines(_, _, _)
Lines(s, cur, acc) ==
  IF s = <<>> THEN Append(acc, cur)
  ELSE IF Head(s) = "\n"
       THEN Lines(Tail(s), <<>>, Append(acc, cur))
       ELSE Lines(Tail(s), Append(cur, Head(s)), acc)

\* /^#+\s/.test(line)
IsHeading(line) ==
  LET n == Span(line, 1, {"#"})
  IN  n >= 1 /\ n < Len(line) /\ line[n + 1] \in Spaces

\* line.trim() === ''
IsBlank(line) == Trim(line) = <<>>

\* structureFactor = min(1.5, max(0.5, 1 + (paragraphCount / lines.length)
\* * 0.5 - (headingCount / lines.length) * 0.3)), in tenths of a line.
analyzeContentDensity(doc) ==
  LET lines == Lines(doc, <<>>, <<>>)
      paragraphCount == Cardinality({i \in 1..Len(lines) : IsBlank(lines[i])})
      headingCount == Cardinality({i \in 1..Len(lines) : IsHeading(lines[i])})
  IN  [num |-> Clamp(10 * Len(lines) + 5 * paragraphCount - 3 * headingCount,
                     5 * Len(lines), 15 * Len(lines)),
       den |-> 10 * Len(lines),
       lines |-> Len(lines),
       paragraphCount |-> paragraphCount,
       headingCount |-> headingCount]

InitDensity ==
  /\ input \in Docs
  /\ result = <<>>
  /\ text = TextOf(input)
  /\ mounted
  /\ voices = <<>>
  /\ voiceName = ""
  /\ rate = 100
  /\ pitch = 100

density ==
  /\ result = <<>>
  /\ result' = <<analyzeContentDensity(input)>>
  /\ last' = Step("analyzeContentDensity")
  /\ UNCHANGED <<text, settings, input, session, backend, viewer>>

NextDensity == density

SpecDensity == InitDensity /\ [][NextDensity]_vars

(***************************************************************************)
(* The page mapping of the page-sync effect and of handlePageChange        *)
(* (232-253, 518-553; the same arithmetic in syncPdfWithText 453-483 and   *)
(* syncTextWithPdf 486-511).  Numbers are exact: a density factor is a     *)
(* fraction [num, den], and floor(t * (a / b) ^ (p / q)) is the greatest   *)
(* integer k with k^q * b^p <= t^q * a^p.                                  *)
(***************************************************************************)
RECURSIVE Pow(_, _)
Pow(b, e) == IF e = 0 THEN 1 ELSE b * Pow(b, e - 1)

RECURSIVE Gcd(_, _)
Gcd(a, b) == IF b = 0 THEN a ELSE Gcd(b, a % b)

\* A fraction in lowest terms.
Frac(a, b) == [num |-> a \div Gcd(a, b), den |-> b \div Gcd(a, b)]

\* Math.floor(t * Math.pow(a / b, e)) for 0 <= a <= b, b > 0.
FloorPow(t, a, b, e) ==
  Max({k \in 0..t : Pow(k, e.den) * Pow(b, e.num)
                      <= Pow(t, e.den) * Pow(a, e.num)})

\* Mutant of estimatePage: totalPages is endPage - startPage.
estimatePage_lessOne(wordIdx, wordCount, startPage, endPage, d) ==
  LET totalPages == endPage - startPage
      exponent == Frac(d.num, 2 * d.den)
  IN  Clamp(startPage + FloorPow(totalPages, wordIdx, wordCount, exponent),
            startPage, endPage)

\* estimatedPage (236-253): wordPosition = currentWordIdx / words.length,
\* exponent = 0.5 * densityFactor, Math.floor(startPage +
\* Math.pow(wordPosition, exponent) * totalPages), then max / min.
estimatePage(wordIdx, wordCount, startPage, endPage, d) ==
  LET totalPages == endPage - startPage + 1
      exponent == Frac(d.num, 2 * d.den)
  IN  Clamp(startPage + FloorPow(totalPages, wordIdx, wordCount, exponent),
            startPage, endPage)

\* Mutant of estimateWordIndex: the result is not clamped.
estimateWordIndex_unclamped(page, wordCount, startPage, endPage, d) ==
  LET totalPages == endPage - startPage + 1
      relative == Clamp(page - startPage, 0, totalPages)
      inverseExponent == Frac(2 * d.den, d.num)
  IN  FloorPow(wordCount, relative, totalPages, inverseExponent)

\* Mutant of estimateWordIndex: the exponent of estimatePage is used.
estimateWordIndex_sameExponent(page, wordCount, startPage, endPage, d) ==
  LET totalPages == endPage - startPage + 1
      relative == Clamp(page - startPage, 0, totalPages)
      inverseExponent == Frac(d.num, 2 * d.den)
  IN  Clamp(FloorPow(wordCount, relative, totalPages, inverseExponent),
            0, wordCount - 1)

\* boundedWordIdx (518-548): relativePosition = clamp((page - startPage) /
\* totalPages, 0, 1), inverseExponent = 2.0 / densityFactor,
\* Math.floor(Math.pow(relativePosition, inverseExponent) * words.length),
\* then max / min.
estimateWordIndex(page, wordCount, startPage, endPage, d) ==
  LET totalPages == endPage - startPage + 1
      relative == Clamp(page - startPage, 0, totalPages)
      inverseExponent == Frac(2 * d.den, d.num)
  IN  Clamp(FloorPow(wordCount, relative, totalPages, inverseExponent),
            0, wordCount - 1)

\* Bounds: the first page, the pages and the words of the chapters mapped.
MaxStartPage == 2
MaxPages == 5
MaxWordCount == 7

\* The density factors mapped: 0.5, 1.0 and 1.5 (the ends and the middle of
\* analyzeContentDensity's range).
Densities == {Frac(1, 2), Frac(1, 1), Frac(3, 2)}

\* A chapter, a word of it, a page inside or up to two pages outside it,
\* and a density factor; and the example of 1..101, 100 words, word 25.
MapperInputs ==
  UNION {{[startPage |-> s, endPage |-> s + t - 1, wordCount |-> n,
           wordIdx |-> w, page |-> g, d |-> d] :
            w \in 0..(n - 1), g \in (s - 2)..(s + t + 1)} :
         s \in 1..MaxStartPage, t \in 1..MaxPages, n \in 1..MaxWordCount,
         d \in Densities}
  \cup {[startPage |-> 1, endPage |-> 101, wordCount |-> 100,
         wordIdx |-> 25, page |-> 51, d |-> Frac(1, 1)]}

InitMapper ==
  /\ input \in MapperInputs
  /\ result = <<>>
  /\ text = TextOf(<<>>)
  /\ mounted
  /\ voices = <<>>
  /\ voiceName = ""
  /\ rate = 100
  /\ pitch = 100

\* Both directions, and the way there and back.
mapPosition ==
  /\ result = <<>>
  /\ LET i == input
         pg == estimatePage(i.wordIdx, i.wordCount, i.startPage, i.endPage,
                            i.d)
     IN  result' =
           <<[page |-> pg,
              wordIdx |-> estimateWordIndex(i.page, i.wordCount,
                                            i.startPage, i.endPage, i.d),
              back |-> estimateWordIndex(pg, i.wordCount, i.startPage,
                                         i.endPage, i.d)]>>
  /\ last' = Step("mapPosition")
  /\ UNCHANGED <<text, settings, input, session, backend, viewer>>

NextMapper == mapPosition

SpecMapper == InitMapper /\ [][NextMapper]_vars

(***************************************************************************)
(* FormattedText (src/components/FormattedText.tsx 56-164): the word spans *)
(* it numbers data-w = 0, 1, 2, ... for the raw text prop, block by block. *)
(***************************************************************************)
\* text.split('\n\n') (58)
RECURSIVE Blocks(_, _, _)
Blocks(s, cur, acc) ==
  IF s = <<>> THEN Append(acc, cur)
  ELSE IF Len(s) >= 2 /\ s[1] = "\n" /\ s[2] = "\n"
       THEN Blocks(SubSeq(s, 3, Len(s)), <<>>, Append(acc, cur))
       ELSE Blocks(Tail(s), Append(cur, Head(s)), acc)

\* s.split(/\s+/): a leading or trailing run of white space leaves an
\* empty string at that end; "".split(/\s+/) is [""].
RECURSIVE SplitWs(_, _, _)
SplitWs(s, cur, acc) ==
  IF s = <<>> THEN Append(acc, cur)
  ELSE IF Head(s) \in Spaces
       THEN SplitWs(SubSeq(s, Span(s, 1, Spaces) + 1, Len(s)), <<>>,
                    Append(acc, cur))
       ELSE SplitWs(Tail(s), Append(cur, Head(s)), acc)

\* block.replace(/^m+\s+/, '') when many, block.replace(/^m\s+/, '') when
\* not (67, 92, 111): at the start of the block only.
StripStart(s, m, many) ==
  LET nm == IF many THEN Span(s, 1, {m})
            ELSE IF s # <<>> /\ s[1] = m THEN 1 ELSE 0
      ns == Span(s, nm + 1, Spaces)
  IN  IF nm >= 1 /\ ns >= 1 THEN SubSeq(s, nm + ns + 1, Len(s)) ELSE s

StartsWith(s, pre) == Len(s) >= Len(pre) /\ SubSeq(s, 1, Len(pre)) = pre

RECURSIVE Flatten(_)
Flatten(ss) == IF ss = <<>> THEN <<>> ELSE Head(ss) \o Flatten(Tail(ss))

\* The words of one block, in the order their spans are numbered (64-159).
BlockWords(block) ==
  IF StartsWith(block, <<"#">>)
  THEN SplitWs(StripStart(block, "#", TRUE), <<>>, <<>>)
  ELSE IF StartsWith(block, <<bullet, " ">>)
  THEN LET items == Lines(block, <<>>, <<>>)
       IN  Flatten([i \in 1..Len(items) |->
                      SplitWs(StripStart(items[i], bullet, FALSE),
                              <<>>, <<>>)])
  ELSE IF StartsWith(block, <<">">>)
  THEN SplitWs(StripStart(block, ">", FALSE), <<>>, <<>>)
  ELSE IF StartsWith(block, <<"-", "-", "-">>)
  THEN SplitWs(StripSidebar(block), <<>>, <<>>)
  ELSE SplitWs(block, <<>>, <<>>)

\* spans[i] is the word shown in the span with data-w = i - 1.
FormattedSpans(doc) ==
  LET blocks == Blocks(doc, <<>>, <<>>)
  IN  Flatten([b \in 1..Len(blocks) |-> BlockWords(blocks[b])])

\* "# a b" then a paragraph; a quote; a list of two items; a sidebar.
MarkedUp ==
  {<<"#", " ", "a", " ", "b", "\n", "\n", "a", "b", " ", "a">>,
   <<">", " ", "a", " ", "b">>,
   <<bullet, " ", "a", "\n", bullet, " ", "b">>,
   <<"-", "-", "-", "\n", "a", " ", "b", "\n", "-", "-", "-">>}

InitHighlight ==
  /\ input \in Docs \cup MarkedUp
  /\ result = <<>>
  /\ text = TextOf(input)
  /\ mounted
  /\ voices = <<>>
  /\ voiceName = ""
  /\ rate = 100
  /\ pitch = 100

\* Reader renders: useMemo runs on text and FormattedText is given the
\* same text (661-665, 680-684).
renderText ==
  /\ result = <<>>
  /\ result' = <<[spans |-> FormattedSpans(input),
                  words |-> useMemoOf(input).words]>>
  /\ last' = Step("renderText")
  /\ UNCHANGED <<text, settings, input, session, backend, viewer>>

NextHighlight == renderText

SpecHighlight == InitHighlight /\ [][NextHighlight]_vars

(***************************************************************************)
(* PDFViewer (src/components/PDFViewer.tsx 100-253) on its own: the        *)
(* currentPage prop, the component's state and the renderPage call in      *)
(* flight.  pageNumPending is 0 for null, canvas is the page drawn (0:     *)
(* none), job is empty or the renderPage call that awaits page.render:     *)
(* the page it draws and the pageNumPending of the render whose closure    *)
(* it is.  A state update and the effects that follow it are one step.     *)
(***************************************************************************)
\* Bound: the pages of the PDF shown.
MaxPdfPages == 3

\* renderPage(num) up to its await (174-231), called in the render whose
\* pageNumPending is pending.
startRender(v, num, pending) ==
  [v EXCEPT !.pageRendering = TRUE,
            !.job = <<[num |-> num, pending |-> pending]>>]

\* The document has loaded (133-137); the effect of 157-162 renders the
\* page.
pdfLoaded ==
  /\ ~pdfViewer.pdf
  /\ pdfViewer' = startRender([pdfViewer EXCEPT !.pdf = TRUE],
                              pdfViewer.pageNum, pdfViewer.pageNumPending)
  /\ last' = Step("pdfLoaded")
  /\ UNCHANGED <<text, settings, scratch, session, backend,
                 viewMode, currentPage, chapterInfo, pageChangeTimeout,
                 timers, rendered, effectPending>>

\* The effect of 165-172 for the new prop p, and the effect of 157-162
\* when it set pageNum.
currentPageEffect(v, p) ==
  IF p # v.pageNum /\ ~v.pageRendering
  THEN IF v.pdf
       THEN startRender([v EXCEPT !.pageNum = p], p, v.pageNumPending)
       ELSE [v EXCEPT !.pageNum = p]
  ELSE IF v.pageRendering
       THEN [v EXCEPT !.pageNumPending = p]
       ELSE v

\* The Reader gives the viewer another currentPage.  last.flag (history)
\* tells whether a render was in progress.
currentPageProp ==
  \E p \in (1..MaxPdfPages) \ {currentPage} :
    /\ currentPage' = p
    /\ pdfViewer' = currentPageEffect(pdfViewer, p)
    /\ last' = [Step("currentPage") EXCEPT !.flag = pdfViewer.pageRendering]
    /\ UNCHANGED <<text, settings, scratch, session, backend,
                   viewMode, chapterInfo, pageChangeTimeout,
                   timers, rendered, effectPending>>

\* The viewer's previous / next buttons (244-253); onPageChange makes the
\* Reader's currentPage the new page (part_001:514).
changePage ==
  \E offset \in {-1, 1} :
    LET newPageNum == pdfViewer.pageNum + offset
        totalPages == IF pdfViewer.pdf THEN MaxPdfPages ELSE 0
    IN  /\ newPageNum >= 1 /\ newPageNum <= totalPages
        /\ ~pdfViewer.pageRendering
        /\ pdfViewer' = startRender([pdfViewer EXCEPT !.pageNum = newPageNum],
                                    newPageNum, pdfViewer.pageNumPending)
        /\ currentPage' = newPageNum
        /\ last' = Step("changePage")
        /\ UNCHANGED <<text, settings, scratch, session, backend,
                       viewMode, chapterInfo, pageChangeTimeout,
                       timers, rendered, effectPending>>

\* page.render(...).promise resolves (231-240): the canvas shows the page;
\* the call goes on with the pageNumPending of its own closure.
renderDone ==
  /\ pdfViewer.job # <<>>
  /\ LET job == pdfViewer.job[1]
         drawn == [pdfViewer EXCEPT !.canvas = job.num,
                                    !.pageRendering = FALSE,
                                    !.job = <<>>]
     IN  pdfViewer' =
           IF job.pending # 0
           THEN [startRender(drawn, job.pending, job.pending)
                   EXCEPT !.pageNumPending = 0]
           ELSE drawn
  /\ last' = Step("renderDone")
  /\ UNCHANGED <<text, settings, scratch, session, backend,
                 viewMode, currentPage, chapterInfo, pageChangeTimeout,
                 timers, rendered, effectPending>>

\* The viewer is mounted on page 1 of a document still loading.
InitViewer ==
  /\ text = TextOf(<<>>)
  /\ playing = FALSE
  /\ paused = FALSE
  /\ currentWordIdx = -1
  /\ abortRef = FALSE
  /\ queueRef = <<>>
  /\ charBaseRef = 0
  /\ pausePositionRef = <<>>
  /\ remainingChunksRef = <<>>
  /\ synthQueue = <<>>
  /\ synthPaused = FALSE
  /\ globalBase = 0
  /\ stale = {}
  /\ last = Step("init")
  /\ voices = <<>>
  /\ voiceName = ""
  /\ rate = 100
  /\ pitch = 100
  /\ input = <<>>
  /\ result = <<>>
  /\ viewMode = "pdf-only"
  /\ chapterInfo = <<>>
  /\ currentPage = 1
  /\ pageChangeTimeout = 0
  /\ timers = {}
  /\ rendered = [currentWordIdx |-> -1, currentPage |-> 1,
                 pageChangeTimeout |-> 0]
  /\ effectPending = FALSE
  /\ pdfViewer = noViewer

NextViewer ==
  \/ pdfLoaded
  \/ currentPageProp
  \/ changePage
  \/ renderDone

\* A page render in flight completes.
SpecViewer == InitViewer /\ [][NextViewer]_vars /\ WF_vars(renderDone)

(***************************************************************************)
(* extractChapters (src/lib/pdf.ts 289-438), from the headings found on    *)
(* the pages on: a hit is a page and the title found on it; a title is     *)
(* the chapter number it names after "Chapter" (0 when it names none) and  *)
(* its length.  Two titles are the same text when both are equal.          *)
(***************************************************************************)
\* current.page - prev.page < 3 (368)
continuationGap == 3
\* chapterNum > 22 (400)
lastMainChapter == 22
\* current.endPage - current.startPage > 100 (425)
longChapter == 100
\* current.startPage + 50 (431)
lastChapterSpan == 50

\* Dedup (357-373): a hit with the title of the previous kept hit, or less
\* than three pages after it, is skipped.
RECURSIVE Dedup(_, _)
Dedup(hits, uniq) ==
  IF hits = <<>> THEN uniq
  ELSE LET current == Head(hits)
           prev == uniq[Len(uniq)]
       IN  IF uniq # <<>> /\ current.title = prev.title
           THEN Dedup(Tail(hits), uniq)
           ELSE IF uniq # <<>> /\ current.page - prev.page < continuationGap
                THEN Dedup(Tail(hits), uniq)
                ELSE Dedup(Tail(hits), Append(uniq, current))

\* Build chapter ranges (378-390).
Ranges(uniq, numPages) ==
  [i \in 1..Len(uniq) |->
     [id |-> i, title |-> uniq[i].title, startPage |-> uniq[i].page,
      endPage |-> IF i + 1 <= Len(uniq) THEN uniq[i + 1].page - 1
                  ELSE numPages]]

\* chapters.forEach (395-412): the main numbered chapters, by number;
\* chapters of the same number are merged into the first of them.
RECURSIVE MergeByNumber(_, _)
MergeByNumber(chs, map) ==
  IF chs = <<>> THEN map
  ELSE LET ch == Head(chs)
           n == ch.title.num
       IN  IF n < 1 \/ n > lastMainChapter
           THEN MergeByNumber(Tail(chs), map)
           ELSE IF n \in DOMAIN map
                THEN MergeByNumber(Tail(chs),
                       [map EXCEPT ![n] =
                          [@ EXCEPT
                             !.title = IF ch.title.len > @.len THEN ch.title
                                       ELSE @,
                             !.endPage = IF ch.endPage > @ THEN ch.endPage
                                         ELSE @]])
                ELSE MergeByNumber(Tail(chs),
                       [m \in DOMAIN map \cup {n} |->
                          IF m = n THEN [ch EXCEPT !.id = n] ELSE map[m]])

\* Array.from(chapterMap.values()).sort((a, b) => a.id - b.id) (416)
RECURSIVE SortById(_)
SortById(map) ==
  IF DOMAIN map = {} THEN <<>>
  ELSE LET n == CHOOSE m \in DOMAIN map : \A o \in DOMAIN map : m <= o
       IN  <<map[n]>> \o SortById([m \in DOMAIN map \ {n} |-> map[m]])

\* Refine chapter boundaries (419-434); the loop reads only startPage of
\* the next chapter, which it never writes.
Refine(chapters) ==
  [i \in 1..Len(chapters) |->
     LET current == chapters[i]
     IN  IF current.endPage - current.startPage > longChapter
         THEN IF i < Len(chapters)
              THEN [current EXCEPT !.endPage = chapters[i + 1].startPage - 1]
              ELSE [current EXCEPT
                      !.endPage = IF @ < current.startPage + lastChapterSpan
                                  THEN @
                                  ELSE current.startPage + lastChapterSpan]
         ELSE current]

extractChaptersOf(hits, numPages) ==
  IF hits = <<>>
  THEN <<[id |-> 1, title |-> [num |-> 0, len |-> 13], startPage |-> 1,
          endPage |-> numPages]>>
  ELSE LET chapters == Ranges(Dedup(hits, <<>>), numPages)
           chapterMap == MergeByNumber(chapters, <<>>)
       IN  IF DOMAIN chapterMap # {}
           THEN Refine(SortById(chapterMap))
           ELSE chapters

\* Bound: how many pages carry a heading.
MaxHits == 3

\* The pages of the documents scanned, and the pages that may carry a
\* heading: near the start, and far enough apart for an over-long chapter.
DocPages == 120
HeadingPages == {1, 2, 4, 10, 115}

\* "Chapter 1", "Chapter 1: A Longer Title", "Chapter 2", "Chapter 23",
\* "INTRODUCTION".
Titles == {[num |-> 1, len |-> 9], [num |-> 1, len |-> 25],
           [num |-> 2, len |-> 9], [num |-> 23, len |-> 10],
           [num |-> 0, len |-> 12]}

\* The hits of a scan: pages in increasing order, at most one per page.
RECURSIVE HitLists(_, _)
HitLists(n, from) ==
  IF n = 0 THEN {<<>>}
  ELSE {<<>>} \cup
       UNION {{<<[page |-> g, title |-> t]>> \o rest :
                 rest \in HitLists(n - 1, g)} :
              g \in {h \in HeadingPages : h > from}, t \in Titles}

InitChapters ==
  /\ input \in {[hits |-> h, numPages |-> DocPages] :
                  h \in HitLists(MaxHits, 0)}
  /\ result = <<>>
  /\ text = TextOf(<<>>)
  /\ mounted
  /\ voices = <<>>
  /\ voiceName = ""
  /\ rate = 100
  /\ pitch = 100

extractChapters ==
  /\ result = <<>>
  /\ result' = <<extractChaptersOf(input.hits, input.numPages)>>
  /\ last' = Step("extractChapters")
  /\ UNCHANGED <<text, settings, input, session, backend, viewer>>

NextChapters == extractChapters

SpecChapters == InitChapters /\ [][NextChapters]_vars

(***************************************************************************)
(* Page synchronisation: the page-sync effect (215-279), handlePageChange  *)
(* (513-560) and the timers they schedule, next to the playback.           *)
(*                                                                         *)
(* An update made outside a click (a speech callback, a timer, the effect  *)
(* itself) is rendered later, by render; until then the effect and the     *)
(* handlers of the latest committed render are the ones that run, with     *)
(* the values of that render (rendered).  A click is rendered before the   *)
(* next event.  The effects of a render run before the next render and     *)
(* before the next click.                                                  *)
(***************************************************************************)
\* Bound: how many timers setTimeout may hold at once.
MaxTimers == 2

\* words.length; "".split(" ") is [""] (136).
wordCount == IF plainText = <<>> THEN 1 ELSE Len(plainText)

\* analyzeContentDensity(text) of the documents played here, a single line
\* of text: 1 + 0 / 1 - 0 / 1.
densityFactor == Frac(1, 1)

\* setTimeout's handle: one that no timer and no closure holds.
NewTimer(held) ==
  CHOOSE id \in 1..(MaxTimers + 3) :
    /\ id \notin {t.id : t \in held}
    /\ id \notin {pageChangeTimeout, rendered.pageChangeTimeout}
    /\ \A j \in 1..(id - 1) :
         \/ j \in {t.id : t \in held}
         \/ j \in {pageChangeTimeout, rendered.pageChangeTimeout}

\* if (pageChangeTimeout) clearTimeout(pageChangeTimeout) (263-265,
\* 544-546): the timers left.
clearTimeout(handle) == {t \in timers : t.id # handle}

\* What the component shows: the state the next render commits.
live == [currentWordIdx |-> currentWordIdx, currentPage |-> currentPage,
         pageChangeTimeout |-> pageChangeTimeout]

\* A render commits the pending updates; its effect is then to run (every
\* field of rendered is one of its dependencies, 279).
render ==
  /\ ~effectPending
  /\ rendered # live
  /\ rendered' = live
  /\ effectPending' = TRUE
  /\ last' = Step("render")
  /\ UNCHANGED <<text, settings, scratch, session, backend, pdfViewer,
                 viewMode, currentPage, chapterInfo, pageChangeTimeout,
                 timers>>

\* The page-sync effect of the committed render (215-279).
syncEffect ==
  /\ effectPending
  /\ effectPending' = FALSE
  /\ IF /\ rendered.currentWordIdx >= 0
        /\ viewMode \in {"pdf-only", "split"}
        /\ chapterInfo # <<>>
     THEN LET estimatedPage ==
                estimatePage(rendered.currentWordIdx, wordCount,
                             chapterInfo[1].startPage,
                             chapterInfo[1].endPage, densityFactor)
              kept == clearTimeout(rendered.pageChangeTimeout)
          IN  IF estimatedPage # rendered.currentPage
              THEN /\ Cardinality(kept) < MaxTimers
                   /\ timers' = kept \cup
                         {[id |-> NewTimer(kept), kind |-> "page",
                           value |-> estimatedPage]}
                   /\ pageChangeTimeout' = NewTimer(kept)
                   /\ last' = Step("syncEffect")
              ELSE /\ UNCHANGED <<timers, pageChangeTimeout>>
                   /\ last' = [Step("syncEffect") EXCEPT !.noop = TRUE]
     ELSE /\ UNCHANGED <<timers, pageChangeTimeout>>
          /\ last' = [Step("syncEffect") EXCEPT !.noop = TRUE]
  /\ UNCHANGED <<text, settings, scratch, session, backend, pdfViewer,
                 viewMode, currentPage, chapterInfo, rendered>>

\* The pages the viewer's buttons can ask for.
ViewerPages ==
  IF chapterInfo = <<>> THEN {1}
  ELSE chapterInfo[1].startPage..chapterInfo[1].endPage

\* The viewer reports a page (a click in PDFViewer; 513-560), and the click
\* is rendered.  playing and paused are those of the latest render, which
\* every click that changes them commits.
handlePageChange ==
  \E page \in ViewerPages :
    /\ viewMode \in {"pdf-only", "split"}
    /\ ~effectPending
    /\ currentPage' = page
    /\ IF chapterInfo # <<>> /\ wordCount > 0 /\ ~playing /\ ~paused
       THEN LET boundedWordIdx ==
                  estimateWordIndex(page, wordCount,
                                    chapterInfo[1].startPage,
                                    chapterInfo[1].endPage, densityFactor)
                kept == clearTimeout(rendered.pageChangeTimeout)
            IN  /\ Cardinality(kept) < MaxTimers
                /\ timers' = kept \cup
                      {[id |-> NewTimer(kept), kind |-> "word",
                        value |-> boundedWordIdx]}
                /\ pageChangeTimeout' = NewTimer(kept)
                /\ last' = Step("handlePageChange")
       ELSE /\ UNCHANGED <<timers, pageChangeTimeout>>
            /\ last' = [Step("handlePageChange") EXCEPT !.noop = TRUE]
    /\ rendered' = [currentWordIdx |-> currentWordIdx,
                    currentPage |-> page,
                    pageChangeTimeout |-> pageChangeTimeout']
    /\ effectPending' = (rendered' # rendered)
    /\ UNCHANGED <<text, settings, scratch, session, backend, pdfViewer,
                   viewMode, chapterInfo>>

\* A timer of the effect fires: setCurrentPage(estimatedPage) (271-274).
pageTimerFire ==
  \E t \in timers :
    /\ t.kind = "page"
    /\ timers' = timers \ {t}
    /\ currentPage' = t.value
    /\ last' = Step("pageTimer")
    /\ UNCHANGED <<text, settings, scratch, session, backend, pdfViewer,
                   viewMode, chapterInfo, pageChangeTimeout, rendered,
                   effectPending>>

\* A timer of handlePageChange fires: setCurrentWordIdx(boundedWordIdx)
\* (549-553).
wordTimerFire ==
  \E t \in timers :
    /\ t.kind = "word"
    /\ timers' = timers \ {t}
    /\ currentWordIdx' = t.value
    /\ last' = Step("wordTimer")
    /\ UNCHANGED <<text, settings, scratch, backend, pdfViewer,
                   playing, paused, abortRef, queueRef, charBaseRef,
                   pausePositionRef, remainingChunksRef,
                   viewMode, currentPage, chapterInfo, pageChangeTimeout,
                   rendered, effectPending>>

\* Bound: the pages of the chapter shown.
MaxChapterPages == 2

\* The document read with the viewer open: one sentence of two words.
PageSyncTexts ==
  {[blank |-> FALSE, plain |-> <<Word(2, FALSE), Word(3, TRUE)>>]}

\* The chapter's pages have been fetched (168-189), currentPage is the
\* chapter's first page, the viewer is shown next to the text.
InitPageSync ==
  /\ text \in PageSyncTexts
  /\ playing = FALSE
  /\ paused = FALSE
  /\ currentWordIdx = -1
  /\ abortRef = FALSE
  /\ queueRef = <<>>
  /\ charBaseRef = 0
  /\ pausePositionRef = <<>>
  /\ remainingChunksRef = <<>>
  /\ synthQueue = <<>>
  /\ synthPaused = FALSE
  /\ globalBase = 0
  /\ stale = {}
  /\ last = Step("init")
  /\ voices = InstalledVoices
  /\ voiceName = (preferred(voices)).name
  /\ rate = 100
  /\ pitch = 100
  /\ input = <<>>
  /\ result = <<>>
  /\ viewMode = "split"
  /\ chapterInfo = <<[startPage |-> 1, endPage |-> MaxChapterPages]>>
  /\ currentPage = 1
  /\ pageChangeTimeout = 0
  /\ timers = {}
  /\ rendered = [currentWordIdx |-> -1, currentPage |-> 1,
                 pageChangeTimeout |-> 0]
  /\ effectPending = FALSE
  /\ pdfViewer = noViewer

NextPageSync ==
  \/ playFromIdle
  \/ pause
  \/ resume
  \/ onboundary
  \/ onend
  \/ render
  \/ syncEffect
  \/ handlePageChange
  \/ pageTimerFire
  \/ wordTimerFire

SpecPageSync == InitPageSync /\ [][NextPageSync]_vars

(***************************************************************************)
(* Page synchronisation in time.  The timers of the effect are set for     *)
(* Math.min(500, jumpSize * 100) ms, at least 100 ms (269-270); a render   *)
(* and its effect take a few ms and are scheduled at once.  So the delay   *)
(* of a timer runs out only while no render and no effect is pending: a    *)
(* timer set by an effect whose state update is still to be rendered is    *)
(* not due before that render and its effect have run.  The viewer's       *)
(* buttons are left alone.                                                 *)
(***************************************************************************)
quiescent == ~effectPending /\ rendered = live

duePageTimer == quiescent /\ pageTimerFire

\* The page the effect estimates for the current word (236-253).
estimatedPageNow ==
  estimatePage(currentWordIdx, wordCount, chapterInfo[1].startPage,
               chapterInfo[1].endPage, densityFactor)

NextPageProgress ==
  \/ playFromIdle
  \/ onboundary
  \/ onend
  \/ render
  \/ syncEffect
  \/ duePageTimer

\* Pending renders, effects and due timers do run.
SpecPageProgress ==
  /\ InitPageSync
  /\ [][NextPageProgress]_vars
  /\ WF_vars(render)
  /\ WF_vars(syncEffect)
  /\ WF_vars(duePageTimer)

(***************************************************************************)
(* What the properties speak of.                                           *)
(***************************************************************************)
NChunks == Len(allChunks)

\* The number of words of Plain Text in the chunks before chunk k.
RECURSIVE WordsBefore(_)
WordsBefore(k) == IF k = 0 THEN 0 ELSE Len(allChunks[k]) + WordsBefore(k - 1)

\* S_k: the position in Plain Text of the first word of chunk k.
ChunkStart(k) == wordOffsets(plainText)[WordsBefore(k) + 1]

\* The sum over i < k of length(chunk_i) + 1.
RECURSIVE SumChunks(_)
SumChunks(k) ==
  IF k = 0 THEN 0 ELSE StrLen(allChunks[k]) + 1 + SumChunks(k - 1)

\* The greatest word index whose offset is at most g; 0 when there is none.
WordAt(g) ==
  LET offs == wordOffsets(plainText)
      below == {i \in 0..(Len(offs) - 1) : offs[i + 1] <= g}
  IN  IF below = {} THEN 0 ELSE Max(below)

\* Word i of Plain Text holds the character at position g.
Holds(i, g) ==
  LET offs == wordOffsets(plainText)
  IN  /\ i \in 0..(Len(offs) - 1)
      /\ offs[i + 1] <= g
      /\ g < offs[i + 1] + words(plainText)[i + 1].len

\* The chunk of the Chunk Sequence that holds position b and all later
\* chunks; empty when no chunk holds b.
SuffixHolding(b) ==
  LET at == {k \in 0..(NChunks - 1) :
               ChunkStart(k) <= b /\ b < ChunkStart(k) + StrLen(allChunks[k + 1])}
  IN  IF at = {} THEN <<>>
      ELSE SubSeq(allChunks, (CHOOSE k \in at : TRUE) + 1, NChunks)

Texts_of(queue) == [i \in 1..Len(queue) |-> queue[i].chunk]

(***************************************************************************)
(* C1.  A progress callback of a queue built by play()'s fresh path, for   *)
(* chunk k with chunk-local character index c, publishes the index of the  *)
(* Plain Text word at position S_k + c, the word that holds the spoken     *)
(* character; for every chunk, also those after the first.                 *)
(***************************************************************************)
C1_FreshProgressPublishesWord ==
  (last.op = "onboundary" /\ last.path = "fresh" /\ ~last.noop) =>
     /\ currentWordIdx = WordAt(ChunkStart(last.k) + last.c)
     /\ Holds(currentWordIdx, ChunkStart(last.k) + last.c)

C1_Witness ==
  /\ last.op = "onboundary" /\ last.path = "fresh" /\ ~last.noop
  /\ ~last.late
  /\ last.k >= 1 /\ last.c > 0
  /\ currentWordIdx = 2

(***************************************************************************)
(* C2.  Right after play()'s fresh path charBaseRef is 0, and right after  *)
(* the completion callback of chunk k - 1 of a fresh-path queue (the k-th  *)
(* of the queue, callbacks arriving in order) charBaseRef is the sum over  *)
(* i < k of length(chunk_i) + 1, which is the position in Plain Text at    *)
(* which chunk k starts.                                                   *)
(***************************************************************************)
C2_CharBaseAfterCompletions ==
  /\ (last.op = "play" /\ last.path = "fresh") => charBaseRef = 0
  /\ (last.op = "onend" /\ last.path = "fresh" /\ ~last.noop) =>
       /\ charBaseRef = SumChunks(last.k + 1)
       /\ (last.k + 1 < NChunks) => charBaseRef = ChunkStart(last.k + 1)

C2_Witness ==
  /\ last.op = "onend" /\ last.path = "fresh" /\ ~last.noop /\ ~last.late
  /\ last.k = 1 /\ NChunks = 3
  /\ charBaseRef = ChunkStart(2)

(***************************************************************************)
(* C3.  A progress or completion callback of an utterance that a stop()    *)
(* cancelled changes none of playing, paused, currentWordIdx, charBaseRef, *)
(* pausePositionRef, remainingChunksRef, whenever it is delivered.         *)
(***************************************************************************)
C3_StoppedCallbackIsNoop ==
  [][(last'.op \in {"onboundary", "onend"} /\ last'.late /\ last'.stopped) =>
       UNCHANGED <<playing, paused, currentWordIdx, charBaseRef,
                   pausePositionRef, remainingChunksRef>>]_vars

C5_NoDrift ==
  (last.op = "onboundary" /\ ~last.late /\ ~last.noop) =>
     /\ Holds(currentWordIdx, ChunkStart(last.k) + last.c)
     /\ charBaseRef = ChunkStart(last.k)

(***************************************************************************)
(* C6.  pause() accepted (backend speaking, not paused) in state Playing   *)
(* stores the checkpoint {charBaseRef, currentWordIdx} of that moment,     *)
(* sets remainingChunksRef to the chunk that holds position charBaseRef    *)
(* and all later chunks (none when no chunk holds it), pauses the backend  *)
(* and moves to Paused.                                                    *)
(***************************************************************************)
C6_PauseCapturesCheckpoint ==
  [][(last'.op = "pause" /\ speaking /\ ~synthPaused /\ playing /\ ~paused) =>
       /\ pausePositionRef' =
            << [charBase |-> charBaseRef, currentWord |-> currentWordIdx] >>
       /\ remainingChunksRef' = SuffixHolding(charBaseRef)
       /\ synthPaused'
       /\ playing' /\ paused']_vars

C6_Witness ==
  /\ last.op = "pause" /\ ~last.noop
  /\ NChunks = 3 /\ Len(remainingChunksRef) = 2
  /\ pausePositionRef = << [charBase |-> ChunkStart(1), currentWord |-> 1] >>
  /\ playing /\ paused /\ synthPaused

(***************************************************************************)
(* C7.  pause() while the backend is not speaking, or is already paused,   *)
(* changes nothing: no checkpoint, no change of remainingChunksRef, paused *)
(* or playing, and no pause of the backend.                                *)
(***************************************************************************)
C7_PauseRefusedChangesNothing ==
  [][(last'.op = "pause" /\ (~speaking \/ synthPaused)) =>
       UNCHANGED <<session, backend>>]_vars

C7_Witness ==
  /\ last.op = "pause" /\ last.noop
  /\ speaking /\ synthPaused /\ playing /\ ~paused
  /\ pausePositionRef = <<>>

(***************************************************************************)
(* C8.  stop() leaves the abort flag set, the backend's queue and queueRef *)
(* empty, playing and paused false, charBaseRef 0, currentWordIdx -1, no   *)
(* checkpoint and no remaining chunks.                                     *)
(***************************************************************************)
C8_StopResets ==
  (last.op = "stop") =>
     /\ abortRef
     /\ synthQueue = <<>> /\ queueRef = <<>>
     /\ ~playing /\ ~paused
     /\ charBaseRef = 0
     /\ currentWordIdx = -1
     /\ pausePositionRef = <<>>
     /\ remainingChunksRef = <<>>

C8_Witness ==
  /\ last.op = "stop" /\ ~last.again
  /\ \E s \in stale : s.stopped /\ s.u.k >= 1
  /\ charBaseRef = 0 /\ currentWordIdx = -1

(***************************************************************************)
(* C9.  stop() right after stop() leaves the session as the first left it. *)
(***************************************************************************)
C9_StopIdempotent ==
  [][(last.op = "stop" /\ last'.op = "stop") => UNCHANGED session]_vars

C9_Witness ==
  /\ last.op = "stop" /\ last.again
  /\ abortRef /\ currentWordIdx = -1 /\ queueRef = <<>>

(***************************************************************************)
(* C10.  resume() with the backend paused unpauses it and clears paused,   *)
(* and leaves charBaseRef, currentWordIdx, the queue, the checkpoint, the  *)
(* remaining chunks and the abort flag alone; with the backend not paused  *)
(* it changes nothing.                                                     *)
(***************************************************************************)
C10_ResumeFrame ==
  [][(last'.op = "resume") =>
       IF synthPaused
       THEN /\ ~synthPaused' /\ ~paused'
            /\ UNCHANGED <<playing, currentWordIdx, abortRef, queueRef,
                           charBaseRef, pausePositionRef, remainingChunksRef,
                           synthQueue, globalBase, stale>>
       ELSE UNCHANGED <<session, backend>>]_vars

C10_Witness ==
  /\ last.op = "resume" /\ ~last.noop
  /\ playing /\ ~paused /\ ~synthPaused
  /\ pausePositionRef # <<>> /\ Len(remainingChunksRef) = 2

(***************************************************************************)
(* C11.  play() from Idle on a non-empty text submits to the backend       *)
(* exactly one utterance per chunk of chunkSentences(plainText), in chunk  *)
(* order, each with its chunk's text, the voice selected in the voice      *)
(* list (none if no voice is enumerated) and the rate and pitch of the     *)
(* sliders; charBaseRef is 0, the state is Playing, paused is false and    *)
(* the abort flag is cleared.                                              *)
(***************************************************************************)
C11_FreshPlayFromIdle ==
  [][(last'.op = "play" /\ ~playing /\ ~paused /\ ~text.blank) =>
       LET chunks == chunkSentences(plainText, maxLen)
           names == {voices[i].name : i \in 1..Len(voices)}
       IN  /\ Len(synthQueue') = Len(chunks)
           /\ \A i \in 1..Len(chunks) :
                 /\ synthQueue'[i].chunk = chunks[i]
                 /\ voiceName \in names => synthQueue'[i].voice = voiceName
                 /\ names = {} => synthQueue'[i].voice = ""
                 /\ synthQueue'[i].rate = rate
                 /\ synthQueue'[i].pitch = pitch
           /\ charBaseRef' = 0
           /\ playing' /\ ~paused' /\ ~abortRef']_vars

\* A two-chunk queue just submitted with the second voice of the list and
\* both sliders moved.
C11_Witness ==
  /\ last.op = "play" /\ last.path = "fresh"
  /\ Len(synthQueue) = 2 /\ playing /\ ~abortRef
  /\ Len(voices) = 2 /\ voiceName = voices[2].name
  /\ synthQueue[2].voice = voiceName
  /\ synthQueue[2].rate = 150 /\ synthQueue[2].pitch = 75

(***************************************************************************)
(* C12.  A completion callback delivered for the utterance being spoken,   *)
(* the abort flag not set: if it is the last of the submitted queue the    *)
(* state becomes Idle (playing and paused false), checkpoint and remaining *)
(* chunks are cleared and currentWordIdx keeps its value; if it is not the *)
(* last, playing and paused are unchanged.                                 *)
(***************************************************************************)
C12_LastCompletionGoesIdle ==
  [][(last'.op = "onend" /\ ~last'.late /\ ~abortRef) =>
       IF Len(synthQueue) = 1
       THEN /\ ~playing' /\ ~paused'
            /\ pausePositionRef' = <<>>
            /\ remainingChunksRef' = <<>>
            /\ currentWordIdx' = currentWordIdx
       ELSE playing' = playing /\ paused' = paused]_vars

\* The last utterance of a three-chunk reading has ended, a word of it
\* still published.
C12_Witness ==
  /\ last.op = "onend" /\ ~last.late /\ ~last.noop /\ last.k = 2
  /\ synthQueue = <<>>
  /\ ~playing /\ ~paused
  /\ currentWordIdx = 2

(***************************************************************************)
(* C13.  The checkpoint is set only by pause(), and it is none in every    *)
(* state reached right after a play() or a stop().                         *)
(***************************************************************************)
C13_CheckpointClearedByPlayAndStop ==
  [][/\ (pausePositionRef' # pausePositionRef /\ pausePositionRef' # <<>>)
          => last'.op = "pause"
     /\ last'.op \in {"play", "stop"} => pausePositionRef' = <<>>]_vars

\* C13, amended.  The checkpoint is set only by pause(); it is none right
\* after a stop() and right after a play() that takes the fresh path;
\* a play() that takes the restart-from-checkpoint path leaves it as it
\* was, set; a play() on a blank text leaves it as it was.
C13_CheckpointLifecycle ==
  [][/\ (pausePositionRef' # pausePositionRef /\ pausePositionRef' # <<>>)
          => last'.op = "pause"
     /\ last'.op = "stop" => pausePositionRef' = <<>>
     /\ (last'.op = "play" /\ last'.path = "fresh")
          => pausePositionRef' = <<>>
     /\ (last'.op = "play" /\ last'.path = "restart")
          => (pausePositionRef' = pausePositionRef
              /\ pausePositionRef' # <<>>)
     /\ (last'.op = "play" /\ last'.noop)
          => pausePositionRef' = pausePositionRef]_vars

\* play() has just restarted from a checkpoint, which is still set.
C13_Witness ==
  /\ last.op = "play" /\ last.path = "restart"
  /\ playing /\ ~paused
  /\ pausePositionRef # <<>>

(***************************************************************************)
(* C17.  For every document whose plainText is not empty, the words and    *)
(* offsets that useMemo yields have the same length, offsets[0] is 0, the  *)
(* offsets are strictly increasing, offsets[i+1] = offsets[i] +            *)
(* length(words[i]) + 1, and words[i] is what plainText holds at           *)
(* offsets[i], a word starting there.                                      *)
(***************************************************************************)
C17_OffsetsAreWordPositions ==
  (result # <<>> /\ result[1].plainText # <<>>) =>
     LET p == result[1].plainText
         w == result[1].words
         o == result[1].wordOffsets
     IN  /\ Len(w) = Len(o)
         /\ o[1] = 0
         /\ \A i \in 1..(Len(o) - 1) :
               o[i] < o[i + 1] /\ o[i + 1] = o[i] + Len(w[i]) + 1
         /\ \A i \in 1..Len(w) :
               /\ SubSeq(p, o[i] + 1, o[i] + Len(w[i])) = w[i]
               /\ o[i] = 0 \/ p[o[i]] = " "
               /\ w[i] # <<>> /\ \A j \in 1..Len(w[i]) : w[i][j] # " "

\* A heading of two words, tokenized.
C17_Witness ==
  /\ result # <<>>
  /\ input # <<>> /\ input[1] = "#"
  /\ Len(result[1].words) = 2
  /\ result[1].wordOffsets = <<0, 2>>

(***************************************************************************)
(* C18.  findWordIndexFromChar(offsets, g) is the greatest index i with    *)
(* offsets[i] <= g, and 0 when there is none (g below offsets[0], or the   *)
(* list empty); for offsets 0, 6, 11, 17 and g = 12 it is 2.               *)
(***************************************************************************)
C18_GreatestOffsetAtMost ==
  result # <<>> /\ last.op = "findWordIndexFromChar" =>
     LET o == input.offsets
         below == {i \in 0..(Len(o) - 1) : o[i + 1] <= input.a}
     IN  /\ result[1].a = IF below = {} THEN 0 ELSE Max(below)
         /\ (o = <<0, 6, 11, 17>> /\ input.a = 12) => result[1].a = 2

\* The example of the claim has been computed.
C18_Witness ==
  /\ last.op = "findWordIndexFromChar"
  /\ input.offsets = <<0, 6, 11, 17>> /\ input.a = 12
  /\ result # <<>> /\ result[1].a = 2

(***************************************************************************)
(* C19.  findWordIndexFromChar is monotonic in the character index: on a   *)
(* strictly increasing list, a <= b gives                                  *)
(* findWordIndexFromChar(a) <= findWordIndexFromChar(b).                   *)
(***************************************************************************)
C19_Monotonic ==
  (result # <<>> /\ last.op = "findWordIndexFromChar"
     /\ input.a <= input.b) => result[1].a <= result[1].b

\* Two indices in different words of a list of five offsets.
C19_Witness ==
  /\ last.op = "findWordIndexFromChar"
  /\ result # <<>>
  /\ Len(input.offsets) = 5
  /\ input.a < input.b
  /\ result[1].a = 1 /\ result[1].b = 2

(***************************************************************************)
(* C20.  Every chunk of chunkSentences(text, maxLen) has length <= maxLen, *)
(* except a chunk that is a single sentence fragment (no sentence ends     *)
(* inside it) longer than maxLen.  Fragments are never split: the chunks   *)
(* joined by spaces are the text, and every chunk but the last ends where  *)
(* a sentence ends.                                                        *)
(***************************************************************************)
C20_ChunkLength ==
  result # <<>> /\ last.op = "chunkSentences" =>
     LET chunks == result[1]
         RECURSIVE Flat(_)
         Flat(cs) == IF cs = <<>> THEN <<>> ELSE Head(cs) \o Flat(Tail(cs))
     IN  /\ \A i \in 1..Len(chunks) :
               \/ StrLen(chunks[i]) <= input.maxLen
               \/ \A j \in 1..(Len(chunks[i]) - 1) : ~chunks[i][j].end
         /\ Flat(chunks) = input.text
         /\ \A i \in 1..(Len(chunks) - 1) :
               chunks[i] # <<>> /\ chunks[i][Len(chunks[i])].end

\* An over-long fragment of two words stands as a chunk of its own next to
\* a chunk of two fragments glued together.
C20_Witness ==
  /\ last.op = "chunkSentences"
  /\ result # <<>>
  /\ Len(result[1]) = 2
  /\ Len(result[1][1]) = 2 /\ StrLen(result[1][1]) > input.maxLen
  /\ ~result[1][1][1].end
  /\ Len(result[1][2]) = 2 /\ result[1][2][1].end

(***************************************************************************)
(* C14.  If plainText is empty (the text is empty, white space only, or    *)
(* only markup), play() is a no-op: nothing is submitted to the backend    *)
(* and playing, paused, currentWordIdx, charBaseRef and the abort flag are *)
(* unchanged.                                                              *)
(***************************************************************************)
C14_EmptyPlainTextPlayIsNoop ==
  [][(last'.op = "play" /\ plainText = <<>>) =>
       /\ synthQueue' = synthQueue
       /\ UNCHANGED <<playing, paused, currentWordIdx, charBaseRef,
                      abortRef>>]_vars

(***************************************************************************)
(* C15.  When no voice is enumerated, play() submits nothing and leaves    *)
(* the state Idle.                                                         *)
(***************************************************************************)
C15_NoVoicesPlayIsNoop ==
  [][(last'.op = "play" /\ voices = <<>>) =>
       (synthQueue' = synthQueue /\ ~playing')]_vars

\* C15, amended.  When no voice is enumerated, play() from Idle on a
\* non-empty text submits one utterance per chunk all the same, none with
\* a voice set (the backend speaks them with its default voice), and the
\* state becomes Playing.
C15_NoVoicesPlaysUnvoiced ==
  [][(last'.op = "play" /\ voices = <<>> /\ ~text.blank
        /\ ~playing /\ ~paused) =>
       /\ Len(synthQueue') = Len(chunkSentences(plainText, maxLen))
       /\ \A i \in 1..Len(synthQueue') : synthQueue'[i].voice = ""
       /\ playing' /\ ~paused']_vars

\* The voice list has gone empty with a voice name still selected, and
\* play() has submitted two utterances without a voice.
C15_Witness ==
  /\ last.op = "play" /\ last.path = "fresh"
  /\ voices = <<>> /\ voiceName # ""
  /\ playing
  /\ Len(synthQueue) = 2
  /\ synthQueue[1].voice = "" /\ synthQueue[2].voice = ""

(***************************************************************************)
(* C16.  A change of the text while a session is Playing or Paused stops   *)
(* it: right after the change the state is Idle, currentWordIdx is -1 and  *)
(* the backend queue is empty, and no progress callback publishes a word   *)
(* index found in the offsets of another text than the current one.        *)
(***************************************************************************)
C16_TextChangeStops ==
  [][/\ (last'.op = "setText" /\ (playing \/ paused)) =>
          (~playing' /\ ~paused' /\ currentWordIdx' = -1
           /\ synthQueue' = <<>>)
     /\ (last'.op = "onboundary" /\ ~last'.noop) =>
          Head(synthQueue).offs = wordOffsets(plainText)]_vars

(***************************************************************************)
(* C21.  For every non-empty plainText, chunkSentences returns at least    *)
(* one chunk, no chunk is empty, and the chunks joined by single spaces    *)
(* are plainText: every fragment once, in its place.                       *)
(***************************************************************************)
C21_ChunksRebuildText ==
  (result # <<>> /\ last.op = "chunkSentences" /\ input.text # <<>>) =>
     LET chunks == result[1]
         RECURSIVE Joined(_)
         Joined(cs) ==
           IF cs = <<>> THEN <<>> ELSE Head(cs) \o Joined(Tail(cs))
         RECURSIVE Total(_)
         Total(cs) ==
           IF cs = <<>> THEN 0 ELSE StrLen(Head(cs)) + Total(Tail(cs))
     IN  /\ Len(chunks) >= 1
         /\ \A i \in 1..Len(chunks) : chunks[i] # <<>>
         /\ Joined(chunks) = input.text
         /\ Total(chunks) + Len(chunks) - 1 = StrLen(input.text)

\* A text of four words in three chunks.
C21_Witness ==
  /\ last.op = "chunkSentences"
  /\ result # <<>>
  /\ Len(input.text) = 4
  /\ Len(result[1]) = 3

(***************************************************************************)
(* C24.  The page mapping clamps: for every chapter with endPage >=        *)
(* startPage, every word count >= 1, every word index of it and every      *)
(* density factor the estimated page is in [startPage, endPage]; and for   *)
(* every page, inside the chapter or not, the estimated word index is in   *)
(* [0, wordCount - 1].                                                     *)
(***************************************************************************)
C24_MapperClamps ==
  (result # <<>> /\ last.op = "mapPosition") =>
     /\ input.startPage <= result[1].page
     /\ result[1].page <= input.endPage
     /\ 0 <= result[1].wordIdx
     /\ result[1].wordIdx <= input.wordCount - 1

\* A page after the chapter's last has been mapped to the chapter's last
\* word, and the last word of the chapter to its last page.
C24_Witness ==
  /\ last.op = "mapPosition"
  /\ result # <<>>
  /\ input.page > input.endPage
  /\ result[1].wordIdx = input.wordCount - 1
  /\ input.wordIdx = input.wordCount - 1
  /\ input.wordCount > 1
  /\ result[1].page = input.endPage
  /\ input.endPage > input.startPage

(***************************************************************************)
(* C25.  With density factor 1.0 the estimated page is                     *)
(* clamp(floor(startPage + sqrt(wordIdx / wordCount) * totalPages),        *)
(* startPage, endPage) with totalPages = endPage - startPage + 1; for the  *)
(* chapter 1..101, 100 words and word 25 it is 51.                         *)
(***************************************************************************)
C25_SquareRootFormula ==
  (result # <<>> /\ last.op = "mapPosition" /\ input.d = Frac(1, 1)) =>
     LET t == input.endPage - input.startPage + 1
         \* k = floor(sqrt(w / n) * t):  k^2 <= (w / n) * t^2 < (k + 1)^2
         k == CHOOSE j \in 0..t :
                /\ j * j * input.wordCount <= t * t * input.wordIdx
                /\ t * t * input.wordIdx < (j + 1) * (j + 1) * input.wordCount
     IN  /\ result[1].page =
              Clamp(input.startPage + k, input.startPage, input.endPage)
         /\ (input.startPage = 1 /\ input.endPage = 101
               /\ input.wordCount = 100 /\ input.wordIdx = 25)
              => result[1].page = 51

\* The example of the claim has been computed.
C25_Witness ==
  /\ last.op = "mapPosition"
  /\ result # <<>>
  /\ input.d = Frac(1, 1)
  /\ input.startPage = 1 /\ input.endPage = 101
  /\ input.wordCount = 100 /\ input.wordIdx = 25
  /\ result[1].page = 51

(***************************************************************************)
(* C26.  Round trip of the page mapping: for every word index w, chapter   *)
(* and density factor, the word index estimated for the page estimated for *)
(* w differs from w by at most one page's worth of words, wordCount /      *)
(* totalPages rounded up.                                                  *)
(***************************************************************************)
C26_RoundTripWithinPageWidth ==
  (result # <<>> /\ last.op = "mapPosition") =>
     LET n == input.wordCount
         t == input.endPage - input.startPage + 1
         diff == IF result[1].back >= input.wordIdx
                 THEN result[1].back - input.wordIdx
                 ELSE input.wordIdx - result[1].back
     IN  diff * t < n + t

\* C26, amended.  The round trip never lands after w, and it lands on the
\* first word of the span of words that the mapping gives to w's page: with
\* k the page's place in the chapter and e = 2 / densityFactor,
\*   back = floor(n * (k / t) ^ e) <= w < n * ((k + 1) / t) ^ e.
\* (The span of the chapter's last page is n * (1 - (1 - 1 / t) ^ e) words,
\* for e = 2 nearly two pages' worth.)
C26_RoundTripWithinPageSpan ==
  (result # <<>> /\ last.op = "mapPosition") =>
     LET n == input.wordCount
         t == input.endPage - input.startPage + 1
         w == input.wordIdx
         k == result[1].page - input.startPage
         e == Frac(2 * input.d.den, input.d.num)
         back == result[1].back
     IN  /\ back <= w
         /\ Pow(back, e.den) * Pow(t, e.num)
              <= Pow(n, e.den) * Pow(k, e.num)
         /\ Pow(back + 1, e.den) * Pow(t, e.num)
              > Pow(n, e.den) * Pow(k, e.num)
         /\ Pow(w, e.den) * Pow(t, e.num)
              < Pow(n, e.den) * Pow(k + 1, e.num)

\* Word 6 of 7 in a chapter of two pages goes to the second page and comes
\* back as word 1: five words off, where a page's worth is four.
C26_Witness ==
  /\ last.op = "mapPosition"
  /\ result # <<>>
  /\ input.d = Frac(1, 1)
  /\ input.wordCount = 7 /\ input.wordIdx = 6
  /\ input.endPage = input.startPage + 1
  /\ result[1].page = input.endPage
  /\ result[1].back = 1

(***************************************************************************)
(* C27.  For every document, its density factor is                         *)
(* clamp(1 + 0.5 * blank / total - 0.3 * headings / total, 0.5, 1.5),      *)
(* blank and headings being the numbers of blank lines and of heading      *)
(* lines and total the number of lines; it lies in [0.5, 1.5]; total is    *)
(* one more than the number of line breaks, so never 0, also for the       *)
(* empty document.                                                         *)
(***************************************************************************)
C27_DensityInRange ==
  (result # <<>> /\ last.op = "analyzeContentDensity") =>
     LET r == result[1]
         total == Cardinality({i \in 1..Len(input) : input[i] = "\n"}) + 1
         \* line i starts after the (i - 1)-th line break
         starts == {1} \cup {i + 1 : i \in {j \in 1..Len(input) :
                                              input[j] = "\n"}}
         lineAt(b) == SubSeq(input, b, b + Span(input, b,
                                 {c \in Alphabet \cup {"l", "p", "h", "b",
                                    "e", "t", "g", "m", "d"} : c # "\n"}) - 1)
         blank == Cardinality({b \in starts :
                     \A i \in 1..Len(lineAt(b)) : lineAt(b)[i] \in Spaces})
         headings == Cardinality({b \in starts :
                        \E n \in 1..(Len(lineAt(b)) - 1) :
                          /\ \A i \in 1..n : lineAt(b)[i] = "#"
                          /\ lineAt(b)[n + 1] \in Spaces})
         raw == 10 * total + 5 * blank - 3 * headings
     IN  /\ total >= 1 /\ r.lines = total /\ r.den = 10 * total
         /\ r.num = (IF raw < 5 * total THEN 5 * total
                     ELSE IF raw > 15 * total THEN 15 * total ELSE raw)
         /\ 2 * r.num >= r.den          \* factor >= 0.5
         /\ 2 * r.num <= 3 * r.den      \* factor <= 1.5

\* A heading, a blank line and a line of text: 1 + 0.5 / 3 - 0.3 / 3.
C27_Witness ==
  /\ last.op = "analyzeContentDensity"
  /\ result # <<>>
  /\ result[1].lines = 3
  /\ result[1].headingCount = 1 /\ result[1].paragraphCount = 1
  /\ result[1].num = 32 /\ result[1].den = 30

(***************************************************************************)
(* C28.  The tokenizer applied to a document whose plainText is empty      *)
(* (the empty document, one of markup only, one of white space only)       *)
(* yields no words and no offsets, and every word that the tokenizer       *)
(* yields for any document is a non-empty token.                           *)
(***************************************************************************)
C28_EmptyDocumentNoWords ==
  (result # <<>> /\ last.op = "useMemo") =>
     /\ result[1].plainText = <<>> =>
           Len(result[1].words) = 0 /\ Len(result[1].wordOffsets) = 0
     /\ \A i \in 1..Len(result[1].words) : result[1].words[i] # <<>>

(***************************************************************************)
(* C29.  Markup stripping is idempotent: for every document, the           *)
(* plainText derivation applied to the plainText of the document returns   *)
(* it unchanged (and so tokenizes to the same words).                      *)
(***************************************************************************)
C29_StrippingIdempotent ==
  (result # <<>> /\ last.op = "useMemo") =>
     /\ PlainText(result[1].plainText) = result[1].plainText
     /\ useMemoOf(result[1].plainText).words = result[1].words

C22_NoPageWriteWhilePlaying ==
  [][(playing \/ paused) =>
       /\ last'.op = "handlePageChange" => currentWordIdx' = currentWordIdx
       /\ last'.op # "wordTimer"]_vars

(***************************************************************************)
(* C23.  At most one debounce timer is pending at any time.                *)
(***************************************************************************)
C23_OneTimerPending == Cardinality(timers) <= 1

(***************************************************************************)
(* C33.  The exposed playback state is one of Idle, Playing and Paused:    *)
(* in no reachable state is paused true while playing is false.            *)
(***************************************************************************)
C33_PausedImpliesPlaying == paused => playing

(***************************************************************************)
(* C36.  In every reachable state remainingChunksRef is empty or a suffix  *)
(* of the Chunk Sequence of the current Plain Text, and when it is not     *)
(* empty the checkpoint is set.                                            *)
(***************************************************************************)
C36_RemainingIsSuffix ==
  /\ \/ remainingChunksRef = <<>>
     \/ \E i \in 1..Len(allChunks) :
          remainingChunksRef = SubSeq(allChunks, i, Len(allChunks))
  /\ remainingChunksRef # <<>> => pausePositionRef # <<>>

(***************************************************************************)
(* C35.  After play() from Paused took the restart path, the completion    *)
(* callback of an utterance of a superseded queue, delivered late while    *)
(* the restarted queue is the backend's, changes none of charBaseRef,      *)
(* playing, paused, the checkpoint and remainingChunksRef.                 *)
(***************************************************************************)
C35_SupersededCompletionIsNoop ==
  [][(/\ last'.op = "onend" /\ last'.late
      /\ synthQueue # <<>> /\ Head(synthQueue).path = "restart") =>
       UNCHANGED <<charBaseRef, playing, paused, pausePositionRef,
                   remainingChunksRef>>]_vars

(***************************************************************************)
(* C34.  While the session is Playing after a play(), fresh or restart,    *)
(* and before the next play(), pause() or stop(), no callback of a backend *)
(* that reports in order lowers currentWordIdx.                            *)
(***************************************************************************)
C34_WordIndexNeverDecreases ==
  [][(playing /\ ~paused /\ last'.op \in {"onboundary", "onend"}) =>
       currentWordIdx' >= currentWordIdx]_vars

(***************************************************************************)
(* C32.  In every reachable state currentWordIdx is -1 or an index of the  *)
(* current Word Sequence, 0 <= currentWordIdx <= words.length - 1.         *)
(***************************************************************************)
C32_WordIndexInRange ==
  currentWordIdx = -1 \/ currentWordIdx \in 0..(wordCount - 1)

(***************************************************************************)
(* C37.  Playback terminates: once play() has made the session Playing,    *)
(* with no stop(), every pause followed by a resume and every utterance's  *)
(* completion delivered in order, the session eventually is Idle.          *)
(***************************************************************************)
C37_PlaybackTerminates == playing ~> (~playing /\ ~paused)

\* The last utterance of a queue of three has just ended: Idle again.
C37_Witness ==
  /\ last.op = "onend" /\ last.k = 2 /\ ~last.noop
  /\ ~playing /\ ~paused
  /\ synthQueue = <<>>

(***************************************************************************)
(* C38.  Page sync makes progress: with the viewer shown and a chapter     *)
(* page range, once currentWordIdx has stopped changing at a word, the     *)
(* debounce timer eventually fires and currentPage is, from then on, the   *)
(* page estimated for that word.                                           *)
(***************************************************************************)
C38_PageSyncProgress ==
  (<>[](currentWordIdx >= 0) /\ <>[][currentWordIdx' = currentWordIdx]_vars)
    => <>[](currentWordIdx >= 0 /\ currentPage = estimatedPageNow)

(***************************************************************************)
(* C31.  Every chapter that extractChapters returns has endPage >=         *)
(* startPage, whatever headings the scan found, also after chapters of     *)
(* the same number were merged and over-long chapters were re-bounded.     *)
(***************************************************************************)
C31_ChapterRangesOrdered ==
  (result # <<>> /\ last.op = "extractChapters") =>
     \A i \in 1..Len(result[1]) :
        result[1][i].endPage >= result[1][i].startPage

(***************************************************************************)
(* C39.  For every document, FormattedText numbers as many word spans as   *)
(* the controller's Word Sequence has words, and the span numbered i       *)
(* shows words[i].                                                         *)
(***************************************************************************)
C39_SpansAreWords ==
  (result # <<>> /\ last.op = "renderText") =>
     result[1].spans = result[1].words

(***************************************************************************)
(* C40.  The PDF viewer loses no page request: when the currentPage prop   *)
(* has changed while a page render was in progress and no further request  *)
(* comes, the viewer eventually shows the requested page, as pageNum and   *)
(* on the canvas.                                                          *)
(***************************************************************************)
C40_NoPageRequestLost ==
  (<>[][last'.op = "renderDone"]_vars) =>
     [](((last.op = "currentPage" /\ last.flag) =>
          <>(/\ pdfViewer.pageNum = currentPage
             /\ pdfViewer.canvas = currentPage)))

====
